---- MODULE Spec2Model ----
(***************************************************************************)
(* State-machine model of the dashboard client (static/js/dashboard.js,    *)
(* static/js/realtime.js): the alert reconciler, the two pagers, the       *)
(* refresh scheduler with its request loaders, and the push channel.       *)
(***************************************************************************)
EXTENDS Integers, Sequences, FiniteSets, TLC

\* ---------------------------------------------------------------- bounds
\* Largest alert id in the snapshots that come in every order.
MaxId == 2
\* Longest alert / notification list used to exercise paging.
MaxTotal == 11
\* Most requests of one stream that may be outstanding at once.
MaxInFlight == 2
\* How far below 0 or above the last page the notification clicks are followed.
MaxDrift == 2
\* Most interval timers the browser hands out in one run.
MaxTimers == 2
\* Most handlers registered with on() for one event name.
MaxHandlers == 2

\* ------------------------------------------------------ program constants
alertsPageSize == 5
DefaultRefreshMs == 2000

NoTimer == 0
NoSeverity == "undefined"
NoCue == "none"
NoAnswer == "none"

Max2(a, b) == IF a >= b THEN a ELSE b
Min2(a, b) == IF a <= b THEN a ELSE b
\* Math.ceil(total / pageSize) for total >= 0
CeilDiv(total, pageSize) == (total + pageSize - 1) \div pageSize

\* ------------------------------------------------------------- severities
severityOrder == <<"low", "medium", "high", "critical">>

\* String.prototype.toLowerCase on the severity texts the model uses
ToLowerCase(s) ==
    CASE s = "CRITICAL" -> "critical"
      [] s = "High" -> "high"
      [] OTHER -> s

\* (alert.severity || 'low').toLowerCase()
SeverityOf(alert) ==
    IF alert.severity = NoSeverity THEN "low" ELSE ToLowerCase(alert.severity)

\* Array.prototype.indexOf on severityOrder, 0-based, -1 when absent
IndexOf(sev) ==
    IF \E i \in 1..Len(severityOrder) : severityOrder[i] = sev
    THEN (CHOOSE i \in 1..Len(severityOrder) : severityOrder[i] = sev) - 1
    ELSE -1

\* -------------------------------------------------------------- variables
VARIABLES
    systemStatus,       \* state.systemStatus
    monitoringActive,   \* state.monitoringActive
    startDisabled,      \* #start-btn.disabled
    stopDisabled,       \* #stop-btn.disabled
    alertsPage,         \* state.alertsPage
    alertsCache,        \* state.alertsCache
    alertsGiven,        \* the alert list updateAlerts was last called with
    lastAlertCount,     \* state.lastAlertCount
    alertSoundPlayed,   \* state.alertSoundPlayed
    audioEnabled,       \* state.audioEnabled
    audioContext,       \* this.audioContext is an AudioContext (FALSE for null)
    pendingBeeps,       \* the playBeep calls under a setTimeout that is not yet due
    alertsMetric,       \* text of #alerts-metric / #alerts-badge
    alertsStatus,       \* label inside #alerts-status
    alertsContent,      \* alerts rendered in #alerts-content
    alertsPageInfo,     \* number shown in #alerts-page-info
    alertsPrevDisabled, \* #alerts-prev.disabled
    alertsNextDisabled, \* #alerts-next.disabled
    alertsBound,        \* #alerts-prev._bound / #alerts-next._bound
    alertsHandlers,     \* click handlers on #alerts-prev and on #alerts-next
    notificationsPage,  \* state.notificationsPage
    notificationsTotal, \* length of the list last given to updateNotifications
    notificationsGiven, \* the list last given to updateNotifications
    notificationsContent, \* items rendered in #notifications-content: the id,
                        \* the 'read' class and the mark-as-read button of each
    notifPageInfo,      \* <<page, pages>> shown in #notifications-page-info
    notifPrevDisabled,  \* #notifications-prev.disabled
    notifNextDisabled,  \* #notifications-next.disabled
    notifBound,         \* #notifications-prev._bound / #notifications-next._bound
    notifHandlers,      \* click handlers on #notifications-prev and on -next
    readPending,        \* per notification id: POSTs .../read sent and not yet
                        \* answered
    markedRead,         \* ids whose POST .../read was answered with success
    currentChartType,   \* ChartManager.currentChartType
    activeButtons,      \* the .btn-chart buttons that carry the class active
    activeContainers,   \* the .chart-container elements that carry the class active
    autoRefresh,        \* ChartManager.autoRefresh
    refreshTimer,       \* ChartManager.refreshTimer (NoTimer for null)
    chartTimers,        \* the chart manager's interval timers that are alive
    nextChartTimerId,   \* the handle its next setInterval returns
    initPending,        \* the 500 ms timeout of ChartManager.init has not fired
    chartClicked,       \* the chart type of the last .btn-chart clicked
    chartIssued,        \* the chart refreshes the last chart step called, in order
    timeRange,          \* value of #time-range-selector, in hours
    lineInflight,       \* per look-back window: /api/metrics/historical
                        \* requests sent and not yet answered
    lineShown,          \* the look-back window of the series in charts.line
                        \* (NoSeries while the chart has no data)
    helperCall,         \* the last call of a request helper made on its own:
                        \* the helper, what fetch did, and how the helper ended
    refreshInterval,    \* state.refreshInterval: NoTimer or the interval id
    refreshMsField,     \* this.refreshMs, the property the rate control writes
    activeTimers,       \* interval timers alive in the browser, <<id, period>>
    nextTimerId,        \* id the next setInterval returns
    inflight,           \* requests sent and not yet answered, per stream and
                        \* per POST of a user action
    metricsShown,       \* value rendered by updateMetrics
    analyticsShown,     \* value rendered by updateAnalytics
    processesShown,     \* value rendered by updateProcesses
    rtConnected,        \* RealTimeManager.connected
    joinSent,           \* join_monitoring commands sent on the socket
    socketOpen,         \* whether the socket.io channel is currently established
    connText,           \* text of #connection-status .connection-text
    listeners,          \* RealTimeManager.listeners: per event name the
                        \* handlers in registration order
    delivered,          \* handler calls made by the last step of the push
                        \* channel, in call order
    handlerSaw,         \* per handler call of the last step: the connected
                        \* flag and whether join_monitoring had been sent when
                        \* the handler ran
    issued,             \* streams the last step sent a request for
    answered,           \* what fetchAPI returned to the loader that resumed in
                        \* the last step: "success", "failure" or NoAnswer
    visualFired,        \* ids passed to showAlertNotification by the last step
    cueFired,           \* severity passed to playAlertSound by the last step
    beepsFired,         \* the beeps that sounded in the last step
    noticeFired,        \* count and severity passed to showNotification
    toast,              \* message and type passed to showToast by the last step
    runFired,           \* per id: showAlertNotification calls since the id was
                        \* last missing from an applied snapshot (kept up to 2)
    firedBeforeClear,   \* ids notified in the run that the latest empty snapshot
                        \* ended; kept until the snapshot after it is applied
    repeatOf,           \* "fired"/"silent" when the last step called updateAlerts
                        \* with the snapshot of the call right before it (and
                        \* that call fired / did not fire), else "none"
    op                  \* the operation the last step ran

alertVars == <<alertsPage, alertsCache, alertsGiven, lastAlertCount, alertSoundPlayed,
               alertsMetric, alertsStatus, alertsContent, alertsPageInfo,
               alertsPrevDisabled, alertsNextDisabled, alertsBound,
               alertsHandlers>>
effectVars == <<visualFired, cueFired, beepsFired, pendingBeeps, noticeFired, toast>>
statusVars == <<systemStatus, monitoringActive, startDisabled, stopDisabled>>
audioVars == <<audioEnabled, audioContext>>
notifVars == <<notificationsPage, notificationsTotal, notificationsGiven,
               notificationsContent,
               notifPageInfo, notifPrevDisabled, notifNextDisabled, notifBound,
               notifHandlers>>
timerVars == <<refreshInterval, refreshMsField, activeTimers, nextTimerId>>
readVars == <<readPending, markedRead>>
helperVars == <<helperCall>>
chartTimerVars == <<autoRefresh, refreshTimer, chartTimers, nextChartTimerId>>
lineVars == <<timeRange, lineInflight, lineShown>>
chartVars == <<currentChartType, activeButtons, activeContainers, chartTimerVars,
               initPending, chartClicked, chartIssued, lineVars>>
shownVars == <<metricsShown, analyticsShown, processesShown>>
connVars == <<rtConnected, joinSent, socketOpen, connText, listeners, delivered,
              handlerSaw>>
historyVars == <<runFired, firedBeforeClear, repeatOf>>
vars == <<statusVars, audioVars, alertVars, notifVars, timerVars, inflight, shownVars,
          connVars, effectVars, historyVars, readVars, helperVars, chartVars, issued, answered,
          op>>

NoNotice == [count |-> 0, severity |-> NoCue]
NoToast == [message |-> "none", type |-> "none"]

\* A step that does not go through the notification branch of updateAlerts
NoAlertEffects ==
    /\ visualFired' = <<>>
    /\ cueFired' = NoCue
    /\ beepsFired' = <<>>
    /\ pendingBeeps' = pendingBeeps
    /\ noticeFired' = NoNotice
    /\ runFired' = runFired
    /\ firedBeforeClear' = firedBeforeClear

NoEffects ==
    /\ NoAlertEffects
    /\ toast' = NoToast

\* ------------------------------------------------------- alert reconciler
\* Every alert id of the inputs
AllIds == 1..Max2(MaxId + 1, MaxTotal)

\* How many alerts of the list carry id i
Occurrences(alerts, i) == Cardinality({k \in DOMAIN alerts : alerts[k].id = i})

IdsOf(alerts) == {alerts[i].id : i \in DOMAIN alerts}

\* Math.max(0, Math.ceil(total / pageSize) - 1)
MaxPage(total) == Max2(0, CeilDiv(total, alertsPageSize) - 1)

\* The page index left as it is
ClampPageMissing(page, total) == page

\* Math.min(this.state.alertsPage, maxPage)
ClampPage(page, total) == Min2(page, MaxPage(total))

\* The test of the notification branch with >= in the place of >
NotifyBranchNotLess(total, last, active) == total >= last /\ active

\* The test of the notification branch without its monitoringActive operand
NotifyBranchAnyState(total, last, active) == total > last

\* total > this.state.lastAlertCount && this.state.monitoringActive
NotifyBranch(total, last, active) == total > last /\ active

\* alerts.filter(alert => !this.state.alertSoundPlayed.has(alert.id))
NewAlerts(alerts, played) == SelectSeq(alerts, LAMBDA a : a.id \notin played)

\* Every alert of the snapshot taken as new whenever monitoring is active
ToNotifyWholeSnapshot(alerts, last, active, played) ==
    IF active THEN alerts ELSE <<>>

\* The alerts the notification block runs for: newAlerts when both ifs pass
ToNotify(alerts, last, active, played) ==
    IF NotifyBranch(Len(alerts), last, active) THEN NewAlerts(alerts, played)
    ELSE <<>>

\* The severity of the first alert taken as the highest
HighestSeverityOfFirst(alerts) == SeverityOf(alerts[1])

\* The forEach loop that keeps the highest severity seen, starting at 'low'
RECURSIVE HighestFrom(_, _, _)
HighestFrom(alerts, i, highest) ==
    IF i > Len(alerts) THEN highest
    ELSE LET severity == SeverityOf(alerts[i])
         IN HighestFrom(alerts, i + 1,
                IF IndexOf(severity) > IndexOf(highest) THEN severity ELSE highest)

\* The scan started from the severity text of the first alert, not from 'low'
HighestSeverityFromFirst(alerts) ==
    IF alerts = <<>> THEN "low" ELSE HighestFrom(alerts, 2, SeverityOf(alerts[1]))

HighestSeverity(alerts) == HighestFrom(alerts, 1, "low")

\* The ids of the new alerts not recorded
AddPlayedMissing(played, newAlerts) == played

\* alertSoundPlayed.add(alert.id) made only when the cue can sound
AddPlayedWhenAudible(played, newAlerts) ==
    IF audioEnabled THEN played \cup IdsOf(newAlerts) ELSE played

\* this.state.alertSoundPlayed.add(alert.id) for each new alert
AddPlayed(played, newAlerts) == played \cup IdsOf(newAlerts)

\* No id ever removed from the record
PrunePlayedMissing(played, alerts) == played

\* Removal of the ids that are not in the current snapshot
PrunePlayed(played, alerts) == played \cap IdsOf(alerts)

\* playBeep with its guard left out
PlayBeepUnguarded(beep) == TRUE

\* playBeep: whether the beep sounds
PlayBeep(beep) == ~(~audioEnabled \/ ~audioContext)

\* The playBeep calls playAlertSound makes itself
Immediate(beeps) == SelectSeq(beeps, LAMBDA beep : beep[4] = 0)

\* The playBeep calls playAlertSound leaves to setTimeout
Delayed(beeps) == {beeps[k] : k \in {i \in DOMAIN beeps : beeps[i][4] > 0}}

\* playAlertSound: the playBeep calls it makes, as <<frequency, duration, type, delay>>
PlayAlertSound(severity) ==
    CASE ToLowerCase(severity) = "critical" ->
            << <<1000, 150, "square", 0>>, <<1000, 150, "square", 200>>,
               <<1000, 150, "square", 400>> >>
      [] ToLowerCase(severity) = "high" ->
            << <<900, 200, "sine", 0>>, <<900, 200, "sine", 250>> >>
      [] ToLowerCase(severity) = "medium" -> << <<800, 250, "sine", 0>> >>
      [] ToLowerCase(severity) = "low" -> << <<600, 200, "triangle", 0>> >>
      [] OTHER -> << <<800, 200, "sine", 0>> >>

severityLabels ==
    [s \in {"low", "medium", "high", "critical"} |->
        CASE s = "low" -> "Low Risk"
          [] s = "medium" -> "Medium Risk"
          [] s = "high" -> "High Risk"
          [] OTHER -> "Critical Risk"]

\* The badge with the label of the first alert only
StatusBadgeOfFirst(alerts) ==
    IF Len(alerts) = 0 THEN "All Clear"
    ELSE severityLabels[HighestFrom(<<alerts[1]>>, 1, "low")]

\* Label written into #alerts-status: the badge's own forEach loop over all
\* alerts, starting at 'low'
StatusBadge(alerts) ==
    IF Len(alerts) = 0 THEN "All Clear"
    ELSE severityLabels[HighestFrom(alerts, 1, "low")]

\* Array.prototype.slice(start, end), negative indices counted from the end
JsSlice(list, start, end) ==
    LET from == IF start < 0 THEN Max2(Len(list) + start, 0) ELSE Min2(start, Len(list))
        to == IF end < 0 THEN Max2(Len(list) + end, 0) ELSE Min2(end, Len(list))
    IN SubSeq(list, from + 1, to)

\* The slice taken without the page offset
PageSliceFirst(list, page) == JsSlice(list, 0, alertsPageSize)

\* list.slice(start, start + pageSize) with start = page * pageSize
PageSlice(list, page) ==
    JsSlice(list, page * alertsPageSize, page * alertsPageSize + alertsPageSize)

\* addEventListener called whether or not the element is marked _bound
BindAgain(bound, handlers) == handlers + 1

\* if (!element._bound) { element._bound = true; element.addEventListener(...) }:
\* the click handlers the element carries afterwards
BindOnce(bound, handlers) == IF ~bound THEN handlers + 1 ELSE handlers

\* `Page ${maxPage >= 0 ? (currentPage + 1) : 0}`
PageInfo(currentPage, maxPage) == IF maxPage >= 0 THEN currentPage + 1 ELSE 0

\* updateAlertsPagination(currentPage, maxPage)
UpdateAlertsPagination(currentPage, maxPage) ==
    /\ alertsPrevDisabled' = (currentPage <= 0)
    /\ alertsNextDisabled' = (currentPage >= maxPage)
    /\ alertsPageInfo' = PageInfo(currentPage, maxPage)

\* updateAlerts({alerts}) entered with state.alertsPage = page
UpdateAlerts(alerts, page) ==
    LET total == Len(alerts)
        ids == IdsOf(alerts)
        newPage == ClampPage(page, total)
        newAlerts == ToNotify(alerts, lastAlertCount, monitoringActive,
                              alertSoundPlayed)
        notify == Len(newAlerts) > 0
        highestNewSeverity == HighestSeverity(newAlerts)
        played == IF notify THEN AddPlayed(alertSoundPlayed, newAlerts)
                  ELSE alertSoundPlayed
    IN /\ alertsCache' = alerts
       /\ alertsGiven' = alerts
       /\ alertsPage' = newPage
       /\ toast' = NoToast
       /\ alertsMetric' = total
       /\ IF notify
          THEN /\ visualFired' = [i \in DOMAIN newAlerts |-> newAlerts[i].id]
               /\ cueFired' = highestNewSeverity
               /\ beepsFired' = SelectSeq(Immediate(PlayAlertSound(highestNewSeverity)),
                                           PlayBeep)
               /\ pendingBeeps' = pendingBeeps
                                    \cup Delayed(PlayAlertSound(highestNewSeverity))
               /\ noticeFired' = [count |-> Len(newAlerts),
                                  severity |-> highestNewSeverity]
               /\ runFired' = [i \in AllIds |->
                    IF i \notin ids THEN 0
                    ELSE Min2(2, runFired[i] + Occurrences(newAlerts, i))]
          ELSE /\ visualFired' = <<>>
               /\ cueFired' = NoCue
               /\ beepsFired' = <<>>
               /\ pendingBeeps' = pendingBeeps
               /\ noticeFired' = NoNotice
               /\ runFired' = [i \in AllIds |->
                    IF i \notin ids THEN 0 ELSE runFired[i]]
       /\ firedBeforeClear' =
            IF total = 0
            THEN {i \in AllIds : runFired[i] >= 1}
                    \cup (IF alertsCache = <<>> THEN firedBeforeClear ELSE {})
            ELSE IF alertsCache = <<>> THEN firedBeforeClear ELSE {}
       /\ lastAlertCount' = total
       /\ alertSoundPlayed' = PrunePlayed(played, alerts)
       /\ alertsStatus' = StatusBadge(alerts)
       /\ IF total = 0
          THEN /\ alertsContent' = <<>>
               /\ UpdateAlertsPagination(0, 0)
               /\ alertsBound' = alertsBound
               /\ alertsHandlers' = alertsHandlers
          ELSE /\ alertsContent' = PageSlice(alerts, newPage)
               /\ UpdateAlertsPagination(newPage, MaxPage(total))
               /\ alertsBound' = TRUE
               /\ alertsHandlers' = [prev |-> BindOnce(alertsBound, alertsHandlers.prev),
                                     next |-> BindOnce(alertsBound, alertsHandlers.next)]

\* updateSystemStatus(data) with isRunning = data?.system_running || false
UpdateSystemStatus(isRunning) ==
    /\ systemStatus' = IF isRunning THEN "running" ELSE "stopped"
    /\ monitoringActive' = isRunning
    /\ startDisabled' = isRunning
    /\ stopDisabled' = ~isRunning

\* Click on #alerts-prev: the handler bound by bindAlertsPagination
AlertsPrevHandler ==
    IF alertsPage > 0
    THEN UpdateAlerts(alertsCache, alertsPage - 1)
    ELSE UNCHANGED alertVars /\ NoEffects

\* Click on #alerts-next
AlertsNextHandler ==
    IF alertsPage < MaxPage(Len(alertsCache))
    THEN UpdateAlerts(alertsCache, alertsPage + 1)
    ELSE UNCHANGED alertVars /\ NoEffects

\* ---------------------------------------------------------- notifications
\* updateNotificationsPagination(currentPage, maxPage)
UpdateNotificationsPagination(currentPage, maxPage) ==
    /\ notifPrevDisabled' = (currentPage <= 0)
    /\ notifNextDisabled' = (currentPage >= maxPage)
    /\ notifPageInfo' = <<PageInfo(currentPage, maxPage), maxPage + 1>>

\* notification.isRead || false
IsRead(notification) ==
    IF "isRead" \in DOMAIN notification THEN notification.isRead ELSE FALSE

\* The item updateNotifications renders for one notification, with the
\* handlers bindMarkAsReadButtons puts on its new button
RenderNotification(notification) ==
    [id |-> notification.id,
     read |-> IsRead(notification),
     markAsReadBtn |-> ~IsRead(notification),
     handlers |-> IF ~IsRead(notification) THEN BindOnce(FALSE, 0) ELSE 0]

\* updateNotifications({notifications})
UpdateNotifications(notifications) ==
    LET maxPage == MaxPage(Len(notifications))
        currentPage == notificationsPage
    IN /\ notificationsTotal' = Len(notifications)
       /\ notificationsGiven' = notifications
       /\ notificationsPage' = notificationsPage
       /\ IF Len(notifications) = 0
          THEN /\ notificationsContent' = <<>>
               /\ UpdateNotificationsPagination(0, 0)
               /\ notifBound' = notifBound
               /\ notifHandlers' = notifHandlers
          ELSE /\ notificationsContent' =
                    LET slice == PageSlice(notifications, currentPage)
                    IN [k \in DOMAIN slice |-> RenderNotification(slice[k])]
               /\ UpdateNotificationsPagination(currentPage, maxPage)
               /\ notifBound' = TRUE
               /\ notifHandlers' = [prev |-> BindOnce(notifBound, notifHandlers.prev),
                                    next |-> BindOnce(notifBound, notifHandlers.next)]

\* ------------------------------------------------------ refresh scheduler
Streams == {"status", "metrics", "alerts", "notifications", "analytics", "processes"}

\* The loaders the interval callback of startAutoRefresh calls
TickStreams == {"metrics", "alerts", "analytics", "processes"}

\* The POST requests of the user's actions
PostKinds == {"start_monitoring", "stop_monitoring", "mark_read"}
Requests == Streams \cup PostKinds

\* The loaders loadDashboard calls
DashboardStreams ==
    {"status", "metrics", "alerts", "notifications", "analytics", "processes"}

\* clearInterval(id)
ClearInterval(timers, id) == {t \in timers : t[1] # id}

\* stopAutoRefresh without the call of clearInterval
TimersAfterStopMissing(handle, timers) == timers

\* stopAutoRefresh: the timers left alive
TimersAfterStop(handle, timers) ==
    IF handle # NoTimer THEN ClearInterval(timers, handle) ELSE timers

\* stopAutoRefresh: the handle left in state.refreshInterval
HandleAfterStop(handle) == IF handle # NoTimer THEN NoTimer ELSE handle

\* stopAutoRefresh()
StopAutoRefresh ==
    /\ activeTimers' = TimersAfterStop(refreshInterval, activeTimers)
    /\ refreshInterval' = HandleAfterStop(refreshInterval)
    /\ nextTimerId' = nextTimerId

\* startAutoRefresh() entered with state.refreshInterval = handle and the timers
\* given: stopAutoRefresh(), then setInterval(..., state.refreshMs)
StartFrom(handle, timers) ==
    /\ nextTimerId <= MaxTimers
    /\ activeTimers' = TimersAfterStop(handle, timers)
                          \cup {<<nextTimerId, DefaultRefreshMs>>}
    /\ refreshInterval' = nextTimerId
    /\ nextTimerId' = nextTimerId + 1

StartAutoRefresh == StartFrom(refreshInterval, activeTimers)

\* The chart kinds: one .btn-chart button and one container for each
ChartKinds == {"bar", "gauge", "pie", "line"}

\* ChartManager.refreshInterval
ChartRefreshInterval == 5000

\* refreshCurrentChart with every refresh function called
RefreshAllCharts(chartType) == <<"bar", "gauge", "pie", "line">>

\* refreshCurrentChart(): the refresh functions the switch calls, each of
\* which issues one fetch
RefreshCurrentChart(chartType) ==
    IF chartType \in ChartKinds THEN <<chartType>> ELSE <<>>

\* parseInt(timeRangeSelector.value) when the page has no selector
DefaultHours == 24

\* The look-back windows the selector offers
TimeRanges == {1, DefaultHours}

\* The line chart as createLineChart leaves it: no samples
NoSeries == 0

\* The historical requests outstanding after a chart step that called the
\* refresh functions named in issuedCharts with the selector at hours
HistoricalRequests(issuedCharts, hours, outstanding) ==
    IF \E k \in DOMAIN issuedCharts : issuedCharts[k] = "line"
    THEN [outstanding EXCEPT ![hours] = @ + 1]
    ELSE outstanding

\* refreshHistoricalChart once the answer is in, shown before: the series it
\* leaves in charts.line, without the test that the answer is of the window
\* selected
SeriesAfterAnswer(ok, lineChart, hours, shown) ==
    IF ok /\ lineChart THEN hours ELSE shown

\* The interval callback without its test of the autoRefresh flag
IntervalCallbackUnguarded(flag, chartType) == RefreshCurrentChart(chartType)

\* The callback startAutoRefresh gives to setInterval:
\* if (this.autoRefresh) this.refreshCurrentChart()
IntervalCallback(flag, chartType) ==
    IF flag THEN RefreshCurrentChart(chartType) ELSE <<>>

\* The containers that carry the class active after switchChart(chartType)
ContainersAfterSwitch(containers, chartType) ==
    (containers \ ChartKinds) \cup (IF chartType \in ChartKinds THEN {chartType} ELSE {})

\* ChartManager.stopAutoRefresh without the call of clearInterval
ChartTimersAfterStopMissing(handle, timers) == timers

\* ChartManager.stopAutoRefresh: the timers left alive
ChartTimersAfterStop(handle, timers) ==
    IF handle # NoTimer THEN ClearInterval(timers, handle) ELSE timers

\* ChartManager.stopAutoRefresh()
StopChartAutoRefresh ==
    /\ chartTimers' = ChartTimersAfterStop(refreshTimer, chartTimers)
    /\ refreshTimer' = HandleAfterStop(refreshTimer)
    /\ nextChartTimerId' = nextChartTimerId

\* ChartManager.startAutoRefresh(): stopAutoRefresh(), then setInterval
StartChartAutoRefresh ==
    /\ nextChartTimerId <= MaxTimers
    /\ chartTimers' = ChartTimersAfterStop(refreshTimer, chartTimers)
                          \cup {<<nextChartTimerId, ChartRefreshInterval>>}
    /\ refreshTimer' = nextChartTimerId
    /\ nextChartTimerId' = nextChartTimerId + 1

\* The events the socket passes on and the two the manager emits itself
InboundEvents == {"system_status", "metrics_update", "alert_notification"}
EventNames == InboundEvents \cup {"connected", "disconnected"}

\* The handlers initializeRealTime registers, named after what they call
DashboardListeners ==
    [e \in EventNames |->
        CASE e = "metrics_update" -> <<"updateMetrics">>
          [] e = "system_status" -> <<"updateSystemStatus">>
          [] e = "connected" -> <<"updateConnectionStatus(true)">>
          [] e = "disconnected" -> <<"updateConnectionStatus(false)">>
          [] OTHER -> <<>>]

\* Handlers other parts of the page register
OtherHandlers == {"h1", "h2"}

\* on(event, callback): the listener table afterwards
OnPush(table, event, callback) ==
    [table EXCEPT ![event] = Append(@, callback)]

\* emit(event, data), skipping the table: the callbacks of every event run
EmitToAll(table, event, data) ==
    LET all == table["system_status"] \o table["metrics_update"]
                 \o table["alert_notification"] \o table["connected"]
                 \o table["disconnected"]
    IN [k \in DOMAIN all |-> [handler |-> all[k], event |-> event, data |-> data]]

\* emit(event, data): the calls (this.listeners[event] || []).forEach makes
Emit(table, event, data) ==
    [k \in DOMAIN table[event] |->
        [handler |-> table[event][k], event |-> event, data |-> data]]

\* The 'connect' handler of setupHandlers with emit('connected') first
ConnectHandlerEmitFirst ==
    <<"emit", "connected = true", "socket.emit(join_monitoring)">>

\* The statements of the 'connect' handler of setupHandlers, in order
ConnectHandler == <<"connected = true", "socket.emit(join_monitoring)", "emit">>

\* The statements of the 'disconnect' handler of setupHandlers, in order
DisconnectHandler == <<"connected = false", "emit">>

\* One statement of a socket handler run on the manager's state: the flag,
\* whether join_monitoring was sent on this channel, and what the callbacks of
\* emit saw of the two
Exec(stmt, st) ==
    CASE stmt = "connected = true" -> [st EXCEPT !.connected = TRUE]
      [] stmt = "connected = false" -> [st EXCEPT !.connected = FALSE]
      [] stmt = "socket.emit(join_monitoring)" -> [st EXCEPT !.joinSent = TRUE]
      [] OTHER -> [st EXCEPT !.saw = [connected |-> st.connected,
                                      joinSent |-> st.joinSent]]

\* The statements of a handler from the i-th on
RECURSIVE RunFrom(_, _, _)
RunFrom(stmts, i, st) ==
    IF i > Len(stmts) THEN st ELSE RunFrom(stmts, i + 1, Exec(stmts[i], st))

\* A socket handler run with the flag and the join mark as given
RunHandler(stmts, flag, joined) ==
    RunFrom(stmts, 1, [connected |-> flag, joinSent |-> joined,
                       saw |-> [connected |-> flag, joinSent |-> joined]])

\* The argument emit(event) passes when called without data
NoData == "undefined"

\* updateConnectionStatus(connected)
UpdateConnectionStatus(connected) ==
    connText' = IF connected THEN "Connected" ELSE "Polling"

\* fetchAPI called once for each stream of S
Issue(S) ==
    /\ \A s \in S : inflight[s] < MaxInFlight
    /\ inflight' = [s \in Requests |-> IF s \in S THEN inflight[s] + 1 ELSE inflight[s]]
    /\ issued' = S
    /\ answered' = NoAnswer

\* The await of fetchAPI in a loader returns
Answer(s, data) ==
    /\ inflight[s] > 0
    /\ inflight' = [inflight EXCEPT ![s] = @ - 1]
    /\ issued' = {}
    /\ answered' = IF data.success THEN "success" ELSE "failure"

\* What fetchAPI returns when fetch rejects or the body does not parse
TransportFailure == [success |-> FALSE, error |-> "Failed to fetch"]

\* No request helper called yet
NoCall == [helper |-> "none"]

\* error.message of what fetch or response.json() throws
ErrorMessage(outcome) ==
    IF outcome.kind = "rejected" THEN "Failed to fetch" ELSE "Unexpected token"

\* DashboardManager.fetchAPI when fetch ends with the outcome: how the call
\* ends (a value returned or an error thrown to the caller)
FetchAPI(outcome) ==
    IF outcome.kind = "json"
    THEN [returned |-> TRUE, value |-> outcome.body]
    ELSE [returned |-> TRUE,
          value |-> [success |-> FALSE, error |-> ErrorMessage(outcome)]]

\* APIClient.request when fetch ends with the outcome
Request(outcome) ==
    IF outcome.kind = "json"
    THEN IF outcome.ok
         THEN [returned |-> TRUE, value |-> outcome.body]
         ELSE [returned |-> FALSE,
               value |-> IF "error" \in DOMAIN outcome.body
                         THEN outcome.body.error ELSE "HTTP 500"]
    ELSE [returned |-> FALSE, value |-> ErrorMessage(outcome)]

\* fetchAPI with a catch block that calls fetch a second time
FetchAPICallsRetrying(outcome) ==
    IF outcome.kind = "rejected" THEN <<"fetch", "console.error", "fetch">>
    ELSE IF outcome.kind = "unparseable"
         THEN <<"fetch", "response.json", "console.error", "fetch">>
         ELSE <<"fetch", "response.json">>

\* The calls DashboardManager.fetchAPI makes, in order, when fetch ends with
\* the outcome: fetch in the try block, response.json() once fetch resolved,
\* console.error in the catch block
FetchAPICalls(outcome) ==
    IF outcome.kind = "rejected" THEN <<"fetch", "console.error">>
    ELSE IF outcome.kind = "unparseable"
         THEN <<"fetch", "response.json", "console.error">>
         ELSE <<"fetch", "response.json">>

\* The calls APIClient.request makes, in order: the catch block is also
\* entered by the throw on !response.ok
RequestCalls(outcome) ==
    IF outcome.kind = "rejected" THEN <<"fetch", "console.error">>
    ELSE IF outcome.kind = "unparseable" \/ ~outcome.ok
         THEN <<"fetch", "response.json", "console.error">>
         ELSE <<"fetch", "response.json">>

\* data?.system_running || false
SystemRunning(data) ==
    IF "system_running" \in DOMAIN data THEN data.system_running ELSE FALSE

\* if (data) this.updateSystemStatus(data): any object is truthy
StatusHandedOver(data) == TRUE

\* if (data?.success)
HandedOver(data) == data.success

\* ----------------------------------------------------------------- inputs
Alert(i, sev) == [id |-> i, severity |-> sev]

\* The severity the backend gives alert i: the texts come round with the ids
SeverityTexts == <<"medium", "critical", "low", "High", NoSeverity>>
SevById(i) == SeverityTexts[((i - 1) % Len(SeverityTexts)) + 1]

\* Alerts 1..n in id order
Prefix(n) == [i \in 1..n |-> Alert(i, SevById(i))]

\* Snapshots of every size up to MaxTotal
PageSnapshots == {Prefix(n) : n \in 0..MaxTotal}

\* Sequences of pairwise distinct ids out of 1..MaxId, in any order
DistinctIdLists ==
    {q \in UNION {[1..n -> 1..MaxId] : n \in 0..MaxId} :
        \A i, j \in DOMAIN q : i # j => q[i] # q[j]}

DedupSnapshots ==
    {[i \in DOMAIN q |-> Alert(q[i], SevById(q[i]))] : q \in DistinctIdLists}

\* Alerts 1..n with the severity texts moved on by k places
Shifted(n, k) == [i \in 1..n |-> Alert(i, SevById(i + k))]

ShiftedSnapshots ==
    {Shifted(n, k) : n \in 0..(MaxId + 1), k \in 1..Len(SeverityTexts)}

ReconcileSnapshots == DedupSnapshots \cup ShiftedSnapshots

\* alert.id of an alert that carries no id: the value undefined, which is
\* no alert's id
Undefined == 0

\* Alerts without an id and alerts whose severity is none of the four
IrregularAlerts ==
    {Alert(Undefined, "low"), Alert(Undefined, "CRITICAL"), Alert(1, "urgent"),
     Alert(2, "High")}

\* Every list of up to two of them, and one list longer than a page
IrregularSnapshots ==
    UNION {[1..n -> IrregularAlerts] : n \in 0..2} \cup {Prefix(alertsPageSize + 1)}

\* Snapshots the backend answers with in the scheduler runs
SysSnapshots == {Prefix(n) : n \in 0..1}

Notification(i) == [id |-> i, is_read |-> FALSE]
NotificationLists == {[i \in 1..n |-> Notification(i)] : n \in 0..MaxTotal}

StatusResponses ==
    {[success |-> TRUE, system_running |-> b] : b \in BOOLEAN} \cup {TransportFailure}
MetricsResponses == {[success |-> TRUE, metrics |-> "m1"], TransportFailure}
AlertsResponses ==
    {[success |-> TRUE, alerts |-> S] : S \in SysSnapshots} \cup {TransportFailure}
NotificationsResponses ==
    {[success |-> TRUE, notifications |-> L] : L \in NotificationLists}
        \cup {TransportFailure}
AnalyticsResponses == {[success |-> TRUE, analytics |-> "a1"], TransportFailure}
ProcessesResponses == {[success |-> TRUE, processes |-> "p1"], TransportFailure}

\* Notifications 1..n of which those with an id in R carry is_read = true
ReadNotification(i, R) == [id |-> i, is_read |-> (i \in R)]
ReadNotificationLists ==
    {[i \in 1..n |-> ReadNotification(i, R)] :
        n \in 0..(MaxId + 1), R \in SUBSET (1..(MaxId + 1))}
ReadNotificationsResponses ==
    {[success |-> TRUE, notifications |-> L] : L \in ReadNotificationLists}
        \cup {TransportFailure}

\* What fetchAPI returns for the POST of a user action
PostResponses ==
    {[success |-> TRUE], [success |-> FALSE, message |-> "refused"], TransportFailure}

\* What a fetch can end with: the promise rejects, the body does not parse,
\* or a JSON body arrives with response.ok true or false
ResponseBodies ==
    StatusResponses \cup MetricsResponses \cup AlertsResponses
        \cup NotificationsResponses \cup ReadNotificationsResponses
        \cup AnalyticsResponses \cup ProcessesResponses \cup PostResponses
FetchOutcomes ==
    {[kind |-> "rejected", ok |-> FALSE, body |-> "none"]}
        \cup {[kind |-> "unparseable", ok |-> b, body |-> "none"] : b \in BOOLEAN}
        \cup {[kind |-> "json", ok |-> b, body |-> d] :
                    b \in BOOLEAN, d \in ResponseBodies}

\* The value parseInt reads from the #refresh-rate control
RateChoices == {1000}
NoRate == 0
NothingShown == "initial"

\* ------------------------------------------------------------------- Init
\* The state when the DashboardManager constructor returns: init() has set up
\* the push channel, started the timer, called loadDashboard and
\* updateSystemStatus({system_running: false}).
Constructed ==
    /\ systemStatus = "stopped"
    /\ monitoringActive = FALSE
    /\ startDisabled = FALSE
    /\ stopDisabled = TRUE
    /\ audioEnabled = TRUE
    /\ pendingBeeps = {}
    /\ alertsPage = 0
    /\ alertsCache = <<>>
    /\ alertsGiven = <<>>
    /\ lastAlertCount = 0
    /\ alertSoundPlayed = {}
    /\ alertsMetric = 0
    /\ alertsStatus = NothingShown
    /\ alertsContent = <<>>
    /\ alertsPageInfo = 0
    /\ alertsPrevDisabled = FALSE
    /\ alertsNextDisabled = FALSE
    /\ alertsBound = FALSE
    /\ alertsHandlers = [prev |-> 0, next |-> 0]
    /\ notificationsPage = 0
    /\ notificationsTotal = 0
    /\ notificationsGiven = <<>>
    /\ notificationsContent = <<>>
    /\ notifPageInfo = <<0, 0>>
    /\ notifPrevDisabled = FALSE
    /\ notifNextDisabled = FALSE
    /\ notifBound = FALSE
    /\ notifHandlers = [prev |-> 0, next |-> 0]
    /\ readPending = [i \in AllIds |-> 0]
    /\ markedRead = {}
    /\ helperCall = NoCall
    /\ currentChartType = "bar"
    /\ activeButtons = {"bar"}
    /\ activeContainers = {"bar"}
    /\ autoRefresh = TRUE
    /\ refreshTimer = NoTimer
    /\ chartTimers = {}
    /\ nextChartTimerId = 1
    /\ initPending = TRUE
    /\ chartClicked = "none"
    /\ chartIssued = <<>>
    /\ timeRange = DefaultHours
    /\ lineInflight = [h \in TimeRanges |-> 0]
    /\ lineShown = NoSeries
    /\ refreshInterval = 1
    /\ refreshMsField = NoRate
    /\ activeTimers = {<<1, DefaultRefreshMs>>}
    /\ nextTimerId = 2
    /\ inflight = [s \in Requests |-> IF s \in DashboardStreams THEN 1 ELSE 0]
    /\ metricsShown = NothingShown
    /\ analyticsShown = NothingShown
    /\ processesShown = NothingShown
    /\ rtConnected = FALSE
    /\ joinSent = FALSE
    /\ socketOpen = FALSE
    /\ connText = NothingShown
    /\ listeners = DashboardListeners
    /\ delivered = <<>>
    /\ handlerSaw = <<>>
    /\ issued = {}
    /\ answered = NoAnswer
    /\ visualFired = <<>>
    /\ cueFired = NoCue
    /\ beepsFired = <<>>
    /\ noticeFired = NoNotice
    /\ toast = NoToast
    /\ runFired = [i \in AllIds |-> 0]
    /\ firedBeforeClear = {}
    /\ repeatOf = "none"
    /\ op = "init"

\* After the constructor in a browser that provides the Web Audio API
Init == Constructed /\ audioContext = TRUE

\* After the constructor: initAudioContext has created the context or has
\* caught the error and stored null
InitAnyBrowser == Constructed /\ audioContext \in BOOLEAN

\* ---------------------------------------------------------------- actions
\* updateAlerts called with a snapshot, as loadAlerts does with the alerts of
\* a successful answer
CallUpdateAlerts(S) ==
    /\ op' = "updateAlerts"
    /\ repeatOf' = IF op = "updateAlerts" /\ S = alertsCache
                   THEN (IF visualFired # <<>> THEN "fired" ELSE "silent")
                   ELSE "none"
    /\ UpdateAlerts(S, alertsPage)
    /\ UNCHANGED <<statusVars, audioVars, notifVars, timerVars, inflight, shownVars,
                   connVars>>
    /\ issued' = {}
    /\ answered' = NoAnswer
    /\ UNCHANGED readVars
    /\ UNCHANGED helperVars
    /\ UNCHANGED chartVars

\* The pushed 'system_status' event: updateSystemStatus called with
\* system_running = b
CallUpdateSystemStatus(b) ==
    /\ op' = "updateSystemStatus"
    /\ repeatOf' = "none"
    /\ UpdateSystemStatus(b)
    /\ NoEffects
    /\ UNCHANGED <<audioVars, alertVars, notifVars, timerVars, inflight, shownVars,
                   connVars>>
    /\ issued' = {}
    /\ answered' = NoAnswer
    /\ UNCHANGED readVars
    /\ UNCHANGED helperVars
    /\ UNCHANGED chartVars

ClickAlertsPrev ==
    /\ alertsBound /\ ~alertsPrevDisabled
    /\ op' = "alertsPrev"
    /\ repeatOf' = "none"
    /\ AlertsPrevHandler
    /\ UNCHANGED <<statusVars, audioVars, notifVars, timerVars, inflight, shownVars,
                   connVars>>
    /\ issued' = {}
    /\ answered' = NoAnswer
    /\ UNCHANGED readVars
    /\ UNCHANGED helperVars
    /\ UNCHANGED chartVars

ClickAlertsNext ==
    /\ alertsBound /\ ~alertsNextDisabled
    /\ op' = "alertsNext"
    /\ repeatOf' = "none"
    /\ AlertsNextHandler
    /\ UNCHANGED <<statusVars, audioVars, notifVars, timerVars, inflight, shownVars,
                   connVars>>
    /\ issued' = {}
    /\ answered' = NoAnswer
    /\ UNCHANGED readVars
    /\ UNCHANGED helperVars
    /\ UNCHANGED chartVars

\* #audio-alert-toggle changed
ToggleAudio(checked) ==
    /\ op' = "audioToggle"
    /\ repeatOf' = "none"
    /\ audioEnabled' = checked
    /\ audioContext' = audioContext
    /\ NoAlertEffects
    /\ toast' = [message |-> IF checked THEN "Audio alerts enabled"
                             ELSE "Audio alerts disabled",
                 type |-> "info"]
    /\ UNCHANGED <<statusVars, alertVars, notifVars, timerVars, inflight, shownVars,
                   connVars>>
    /\ issued' = {}
    /\ answered' = NoAnswer
    /\ UNCHANGED readVars
    /\ UNCHANGED helperVars
    /\ UNCHANGED chartVars

\* The timeout of a delayed playBeep call is due: of the beeps of one cue the
\* one with the shorter delay is due first
PulseDue(beep) ==
    /\ beep \in pendingBeeps
    /\ \A other \in pendingBeeps : other[1] = beep[1] => other[4] >= beep[4]
    /\ op' = "pulseDue"
    /\ repeatOf' = "none"
    /\ pendingBeeps' = pendingBeeps \ {beep}
    /\ beepsFired' = SelectSeq(<<beep>>, PlayBeep)
    /\ visualFired' = <<>>
    /\ cueFired' = NoCue
    /\ noticeFired' = NoNotice
    /\ toast' = NoToast
    /\ issued' = {}
    /\ answered' = NoAnswer
    /\ UNCHANGED <<runFired, firedBeforeClear>>
    /\ UNCHANGED <<statusVars, audioVars, alertVars, notifVars, timerVars, inflight,
                   shownVars, connVars, readVars, helperVars, chartVars>>

\* Click on #notifications-prev: the handler bound by bindNotificationsPagination
ClickNotifPrev ==
    /\ notifBound /\ ~notifPrevDisabled
    /\ notificationsPage > -MaxDrift
    /\ op' = "notificationsPrev"
    /\ repeatOf' = "none"
    /\ notificationsPage' = notificationsPage - 1
    /\ Issue({"notifications"})
    /\ NoEffects
    /\ UNCHANGED <<notificationsTotal, notificationsGiven, notificationsContent, notifPageInfo,
                   notifPrevDisabled, notifNextDisabled, notifBound, notifHandlers>>
    /\ UNCHANGED <<statusVars, audioVars, alertVars, timerVars, shownVars, connVars>>
    /\ UNCHANGED readVars
    /\ UNCHANGED helperVars
    /\ UNCHANGED chartVars

\* Click on #notifications-next
ClickNotifNext ==
    /\ notifBound /\ ~notifNextDisabled
    /\ notificationsPage < MaxPage(MaxTotal) + MaxDrift
    /\ op' = "notificationsNext"
    /\ repeatOf' = "none"
    /\ notificationsPage' = notificationsPage + 1
    /\ Issue({"notifications"})
    /\ NoEffects
    /\ UNCHANGED <<notificationsTotal, notificationsGiven, notificationsContent, notifPageInfo,
                   notifPrevDisabled, notifNextDisabled, notifBound, notifHandlers>>
    /\ UNCHANGED <<statusVars, audioVars, alertVars, timerVars, shownVars, connVars>>
    /\ UNCHANGED readVars
    /\ UNCHANGED helperVars
    /\ UNCHANGED chartVars

\* The interval callback of startAutoRefresh runs
Tick ==
    /\ activeTimers # {}
    /\ op' = "tick"
    /\ repeatOf' = "none"
    /\ Issue(TickStreams)
    /\ NoEffects
    /\ UNCHANGED <<statusVars, audioVars, alertVars, notifVars, timerVars, shownVars, connVars>>
    /\ UNCHANGED readVars
    /\ UNCHANGED helperVars
    /\ UNCHANGED chartVars

\* Click on #refresh-btn: loadDashboard()
RefreshClick ==
    /\ op' = "loadDashboard"
    /\ repeatOf' = "none"
    /\ Issue(DashboardStreams)
    /\ NoEffects
    /\ UNCHANGED <<statusVars, audioVars, alertVars, notifVars, timerVars, shownVars, connVars>>
    /\ UNCHANGED readVars
    /\ UNCHANGED helperVars
    /\ UNCHANGED chartVars

\* #auto-refresh-toggle changed to checked
AutoRefreshOn ==
    /\ op' = "startAutoRefresh"
    /\ repeatOf' = "none"
    /\ StartAutoRefresh
    /\ NoEffects
    /\ issued' = {}
    /\ answered' = NoAnswer
    /\ UNCHANGED <<statusVars, audioVars, alertVars, notifVars, refreshMsField, inflight,
                   shownVars, connVars>>
    /\ UNCHANGED readVars
    /\ UNCHANGED helperVars
    /\ UNCHANGED chartVars

\* #auto-refresh-toggle changed to unchecked
AutoRefreshOff ==
    /\ op' = "stopAutoRefresh"
    /\ repeatOf' = "none"
    /\ StopAutoRefresh
    /\ NoEffects
    /\ issued' = {}
    /\ answered' = NoAnswer
    /\ UNCHANGED <<statusVars, audioVars, alertVars, notifVars, refreshMsField, inflight,
                   shownVars, connVars>>
    /\ UNCHANGED readVars
    /\ UNCHANGED helperVars
    /\ UNCHANGED chartVars

\* #refresh-rate changed to v
RefreshRateChange(v) ==
    /\ op' = "refreshRate"
    /\ repeatOf' = "none"
    /\ refreshMsField' = v
    /\ IF refreshInterval # NoTimer
       THEN StartFrom(HandleAfterStop(refreshInterval),
                      TimersAfterStop(refreshInterval, activeTimers))
       ELSE UNCHANGED <<refreshInterval, activeTimers, nextTimerId>>
    /\ NoEffects
    /\ issued' = {}
    /\ answered' = NoAnswer
    /\ UNCHANGED <<statusVars, audioVars, alertVars, notifVars, inflight, shownVars, connVars>>
    /\ UNCHANGED readVars
    /\ UNCHANGED helperVars
    /\ UNCHANGED chartVars

\* loadSystemStatus resumes with the value of fetchAPI
LoadSystemStatusResume(data) ==
    /\ op' = "loadSystemStatus"
    /\ repeatOf' = "none"
    /\ Answer("status", data)
    /\ IF StatusHandedOver(data)
       THEN UpdateSystemStatus(SystemRunning(data))
       ELSE UNCHANGED statusVars
    /\ NoEffects
    /\ UNCHANGED <<audioVars, alertVars, notifVars, timerVars, shownVars, connVars>>
    /\ UNCHANGED readVars
    /\ UNCHANGED helperVars
    /\ UNCHANGED chartVars

LoadMetricsResume(data) ==
    /\ op' = "loadMetrics"
    /\ repeatOf' = "none"
    /\ Answer("metrics", data)
    /\ metricsShown' = IF HandedOver(data) THEN data.metrics ELSE metricsShown
    /\ NoEffects
    /\ UNCHANGED <<statusVars, audioVars, alertVars, notifVars, timerVars, analyticsShown,
                   processesShown, connVars>>
    /\ UNCHANGED readVars
    /\ UNCHANGED helperVars
    /\ UNCHANGED chartVars

LoadAlertsResume(data) ==
    /\ op' = "loadAlerts"
    /\ repeatOf' = "none"
    /\ Answer("alerts", data)
    /\ IF HandedOver(data)
       THEN UpdateAlerts(data.alerts, alertsPage)
       ELSE UNCHANGED alertVars /\ NoEffects
    /\ UNCHANGED <<statusVars, audioVars, notifVars, timerVars, shownVars, connVars>>
    /\ UNCHANGED readVars
    /\ UNCHANGED helperVars
    /\ UNCHANGED chartVars

LoadNotificationsResume(data) ==
    /\ op' = "loadNotifications"
    /\ repeatOf' = "none"
    /\ Answer("notifications", data)
    /\ IF HandedOver(data)
       THEN UpdateNotifications(data.notifications)
       ELSE UNCHANGED notifVars
    /\ NoEffects
    /\ UNCHANGED <<statusVars, audioVars, alertVars, timerVars, shownVars, connVars>>
    /\ UNCHANGED readVars
    /\ UNCHANGED helperVars
    /\ UNCHANGED chartVars

\* updateAnalytics renders the totals and `${this.refreshMs/1000}s`
LoadAnalyticsResume(data) ==
    /\ op' = "loadAnalytics"
    /\ repeatOf' = "none"
    /\ Answer("analytics", data)
    /\ analyticsShown' = IF HandedOver(data)
                         THEN <<data.analytics, refreshMsField>>
                         ELSE analyticsShown
    /\ NoEffects
    /\ UNCHANGED <<statusVars, audioVars, alertVars, notifVars, timerVars, metricsShown,
                   processesShown, connVars>>
    /\ UNCHANGED readVars
    /\ UNCHANGED helperVars
    /\ UNCHANGED chartVars

LoadProcessesResume(data) ==
    /\ op' = "loadProcesses"
    /\ repeatOf' = "none"
    /\ Answer("processes", data)
    /\ processesShown' = IF HandedOver(data) THEN data.processes ELSE processesShown
    /\ NoEffects
    /\ UNCHANGED <<statusVars, audioVars, alertVars, notifVars, timerVars, metricsShown,
                   analyticsShown, connVars>>
    /\ UNCHANGED readVars
    /\ UNCHANGED helperVars
    /\ UNCHANGED chartVars

\* The socket's 'connect' event
SocketConnect ==
    /\ ~socketOpen
    /\ op' = "connect"
    /\ repeatOf' = "none"
    /\ socketOpen' = TRUE
    /\ rtConnected' = RunHandler(ConnectHandler, rtConnected, joinSent).connected
    /\ joinSent' = RunHandler(ConnectHandler, rtConnected, joinSent).joinSent
    /\ listeners' = listeners
    /\ delivered' = Emit(listeners, "connected", NoData)
    /\ handlerSaw' = [k \in DOMAIN delivered' |->
                         RunHandler(ConnectHandler, rtConnected, joinSent).saw]
    /\ UpdateConnectionStatus(TRUE)
    /\ NoEffects
    /\ issued' = {}
    /\ answered' = NoAnswer
    /\ UNCHANGED <<statusVars, audioVars, alertVars, notifVars, timerVars, inflight, shownVars>>
    /\ UNCHANGED readVars
    /\ UNCHANGED helperVars
    /\ UNCHANGED chartVars

\* The socket's 'disconnect' event
SocketDisconnect ==
    /\ socketOpen
    /\ op' = "disconnect"
    /\ repeatOf' = "none"
    /\ socketOpen' = FALSE
    /\ rtConnected' = RunHandler(DisconnectHandler, rtConnected, FALSE).connected
    /\ joinSent' = RunHandler(DisconnectHandler, rtConnected, FALSE).joinSent
    /\ listeners' = listeners
    /\ delivered' = Emit(listeners, "disconnected", NoData)
    /\ handlerSaw' = [k \in DOMAIN delivered' |->
                         RunHandler(DisconnectHandler, rtConnected, FALSE).saw]
    /\ UpdateConnectionStatus(FALSE)
    /\ NoEffects
    /\ issued' = {}
    /\ answered' = NoAnswer
    /\ UNCHANGED <<statusVars, audioVars, alertVars, notifVars, timerVars, inflight, shownVars>>
    /\ UNCHANGED readVars
    /\ UNCHANGED helperVars
    /\ UNCHANGED chartVars

\* The channel fails to connect: socket.io reports 'connect_error', for which
\* setupHandlers registers nothing
SocketConnectError ==
    /\ ~socketOpen
    /\ op' = "connect_error"
    /\ repeatOf' = "none"
    /\ delivered' = <<>>
    /\ handlerSaw' = <<>>
    /\ UNCHANGED <<rtConnected, joinSent, socketOpen, connText, listeners>>
    /\ NoEffects
    /\ issued' = {}
    /\ answered' = NoAnswer
    /\ UNCHANGED <<statusVars, audioVars, alertVars, notifVars, timerVars, inflight,
                   shownVars, readVars>>
    /\ UNCHANGED helperVars
    /\ UNCHANGED chartVars

\* on(event, callback) called by another part of the page
On(event, callback) ==
    /\ Len(listeners[event]) < MaxHandlers
    /\ op' = "on"
    /\ repeatOf' = "none"
    /\ listeners' = OnPush(listeners, event, callback)
    /\ delivered' = <<>>
    /\ handlerSaw' = <<>>
    /\ UNCHANGED <<rtConnected, joinSent, socketOpen, connText>>
    /\ NoEffects
    /\ issued' = {}
    /\ answered' = NoAnswer
    /\ UNCHANGED <<statusVars, audioVars, alertVars, notifVars, timerVars, inflight,
                   shownVars, readVars>>
    /\ UNCHANGED helperVars
    /\ UNCHANGED chartVars

\* Payloads the server pushes with each inbound event
Payloads(event) ==
    CASE event = "system_status" -> {[system_running |-> b] : b \in BOOLEAN}
      [] event = "metrics_update" -> {[metrics |-> "m1"], [metrics |-> "m2"]}
      [] OTHER -> {[id |-> 1, severity |-> "critical"]}

\* data.metrics || {}
MetricsOf(data) == IF "metrics" \in DOMAIN data THEN data.metrics ELSE "empty"

\* The socket receives system_status, metrics_update or alert_notification:
\* emit(event, data) calls the handlers, those of the dashboard included
InboundEvent(event, data) ==
    /\ socketOpen
    /\ op' = event
    /\ repeatOf' = "none"
    /\ delivered' = Emit(listeners, event, data)
    /\ handlerSaw' = [k \in DOMAIN delivered' |->
                         [connected |-> rtConnected, joinSent |-> joinSent]]
    /\ UNCHANGED <<rtConnected, joinSent, socketOpen, connText, listeners>>
    /\ IF \E k \in DOMAIN delivered' : delivered'[k].handler = "updateSystemStatus"
       THEN UpdateSystemStatus(SystemRunning(data))
       ELSE UNCHANGED statusVars
    /\ IF \E k \in DOMAIN delivered' : delivered'[k].handler = "updateMetrics"
       THEN metricsShown' = MetricsOf(data)
       ELSE metricsShown' = metricsShown
    /\ NoEffects
    /\ issued' = {}
    /\ answered' = NoAnswer
    /\ UNCHANGED <<audioVars, alertVars, notifVars, timerVars, inflight,
                   analyticsShown, processesShown, readVars>>
    /\ UNCHANGED helperVars
    /\ UNCHANGED chartVars

\* fetchAPI called and fetch ends with the outcome
CallFetchAPI(outcome) ==
    /\ op' = "fetchAPI"
    /\ repeatOf' = "none"
    /\ helperCall' = [helper |-> "fetchAPI", outcome |-> outcome,
                      result |-> FetchAPI(outcome),
                      calls |-> FetchAPICalls(outcome)]
    /\ NoEffects
    /\ issued' = {}
    /\ answered' = NoAnswer
    /\ UNCHANGED <<statusVars, audioVars, alertVars, notifVars, timerVars, inflight,
                   shownVars, connVars, readVars>>
    /\ UNCHANGED chartVars

\* api.request called and fetch ends with the outcome
CallRequest(outcome) ==
    /\ op' = "request"
    /\ repeatOf' = "none"
    /\ helperCall' = [helper |-> "request", outcome |-> outcome,
                      result |-> Request(outcome),
                      calls |-> RequestCalls(outcome)]
    /\ NoEffects
    /\ issued' = {}
    /\ answered' = NoAnswer
    /\ UNCHANGED <<statusVars, audioVars, alertVars, notifVars, timerVars, inflight,
                   shownVars, connVars, readVars>>
    /\ UNCHANGED chartVars

\* Ids of the rendered notifications that carry a mark-as-read button
MarkAsReadButtons ==
    {notificationsContent[k].id :
        k \in {j \in DOMAIN notificationsContent :
                    notificationsContent[j].markAsReadBtn}}

\* Click on the .mark-as-read-btn of notification id: markNotificationAsRead
\* runs up to its await
ClickMarkAsRead(id) ==
    /\ id \in MarkAsReadButtons
    /\ readPending[id] < MaxInFlight
    /\ op' = "markAsReadClick"
    /\ repeatOf' = "none"
    /\ readPending' = [readPending EXCEPT ![id] = @ + 1]
    /\ markedRead' = markedRead
    /\ issued' = {}
    /\ answered' = NoAnswer
    /\ NoEffects
    /\ UNCHANGED <<statusVars, audioVars, alertVars, notifVars, timerVars, inflight,
                   shownVars, connVars>>
    /\ UNCHANGED helperVars
    /\ UNCHANGED chartVars

\* markNotificationAsRead(id) resumes with the value of fetchAPI
MarkAsReadResume(id, data) ==
    /\ readPending[id] > 0
    /\ op' = "markAsRead"
    /\ repeatOf' = "none"
    /\ readPending' = [readPending EXCEPT ![id] = @ - 1]
    /\ answered' = IF data.success THEN "success" ELSE "failure"
    /\ NoAlertEffects
    /\ IF data.success
       THEN /\ inflight["notifications"] < MaxInFlight
            /\ inflight' = [inflight EXCEPT !["notifications"] = @ + 1]
            /\ issued' = {"notifications"}
            /\ markedRead' = markedRead \cup {id}
            /\ toast' = NoToast
       ELSE /\ UNCHANGED <<inflight, markedRead>>
            /\ issued' = {}
            /\ toast' = [message |-> "Failed to mark notification as read",
                         type |-> "danger"]
    /\ UNCHANGED <<statusVars, audioVars, alertVars, notifVars, timerVars, shownVars,
                   connVars>>
    /\ UNCHANGED helperVars
    /\ UNCHANGED chartVars

\* data.message || 'Unknown error'
MessageOf(data) ==
    IF "message" \in DOMAIN data THEN data.message ELSE "Unknown error"

\* Click on #start-btn: startMonitoring() up to its await. A disabled button
\* receives no click.
ClickStart ==
    /\ ~startDisabled
    /\ op' = "startClick"
    /\ repeatOf' = "none"
    /\ startDisabled' = TRUE
    /\ Issue({"start_monitoring"})
    /\ NoEffects
    /\ UNCHANGED <<systemStatus, monitoringActive, stopDisabled>>
    /\ UNCHANGED <<audioVars, alertVars, notifVars, timerVars, shownVars, connVars,
                   readVars, helperVars>>
    /\ UNCHANGED chartVars

\* startMonitoring() resumes with the value of fetchAPI
StartMonitoringResume(data) ==
    /\ inflight["start_monitoring"] > 0
    /\ op' = "startMonitoring"
    /\ repeatOf' = "none"
    /\ answered' = IF data.success THEN "success" ELSE "failure"
    /\ NoAlertEffects
    /\ IF data.success
       THEN /\ toast' = [message |-> "Monitoring started", type |-> "success"]
            /\ monitoringActive' = TRUE
            /\ startDisabled' = TRUE
            /\ stopDisabled' = FALSE
            /\ \A s \in DashboardStreams : inflight[s] < MaxInFlight
            /\ inflight' = [s \in Requests |->
                                IF s \in DashboardStreams THEN inflight[s] + 1
                                ELSE IF s = "start_monitoring" THEN inflight[s] - 1
                                ELSE inflight[s]]
            /\ issued' = DashboardStreams
       ELSE /\ toast' = [message |-> "Failed to start monitoring: " \o MessageOf(data),
                         type |-> "danger"]
            /\ monitoringActive' = monitoringActive
            /\ startDisabled' = FALSE
            /\ stopDisabled' = TRUE
            /\ inflight' = [inflight EXCEPT !["start_monitoring"] = @ - 1]
            /\ issued' = {}
    /\ UNCHANGED systemStatus
    /\ UNCHANGED <<audioVars, alertVars, notifVars, timerVars, shownVars, connVars,
                   readVars, helperVars>>
    /\ UNCHANGED chartVars

\* Click on #stop-btn: stopMonitoring() up to its await
ClickStop ==
    /\ ~stopDisabled
    /\ op' = "stopClick"
    /\ repeatOf' = "none"
    /\ stopDisabled' = TRUE
    /\ Issue({"stop_monitoring"})
    /\ NoEffects
    /\ UNCHANGED <<systemStatus, monitoringActive, startDisabled>>
    /\ UNCHANGED <<audioVars, alertVars, notifVars, timerVars, shownVars, connVars,
                   readVars, helperVars>>
    /\ UNCHANGED chartVars

\* stopMonitoring() resumes with the value of fetchAPI
StopMonitoringResume(data) ==
    /\ inflight["stop_monitoring"] > 0
    /\ op' = "stopMonitoring"
    /\ repeatOf' = "none"
    /\ answered' = IF data.success THEN "success" ELSE "failure"
    /\ NoAlertEffects
    /\ inflight' = [inflight EXCEPT !["stop_monitoring"] = @ - 1]
    /\ issued' = {}
    /\ IF data.success
       THEN /\ toast' = [message |-> "Monitoring stopped", type |-> "success"]
            /\ monitoringActive' = FALSE
       ELSE /\ toast' = [message |-> "Failed to stop monitoring: " \o MessageOf(data),
                         type |-> "danger"]
            /\ monitoringActive' = monitoringActive
    /\ startDisabled' = FALSE
    /\ stopDisabled' = TRUE
    /\ UNCHANGED systemStatus
    /\ UNCHANGED <<audioVars, alertVars, notifVars, timerVars, shownVars, connVars,
                   readVars, helperVars>>
    /\ UNCHANGED chartVars

\* What a step of the chart manager leaves alone in the dashboard manager
ChartStep ==
    /\ \A h \in TimeRanges :
          HistoricalRequests(chartIssued', timeRange', lineInflight)[h] <= MaxInFlight
    /\ lineInflight' = HistoricalRequests(chartIssued', timeRange', lineInflight)
    /\ lineShown' = lineShown
    /\ repeatOf' = "none"
    /\ NoEffects
    /\ issued' = {}
    /\ answered' = NoAnswer
    /\ UNCHANGED <<statusVars, audioVars, alertVars, notifVars, timerVars, inflight,
                   shownVars, connVars, readVars, helperVars>>

\* Click on the .btn-chart of a chart type: switchChart(chartType)
SwitchChart(chartType) ==
    /\ op' = "switchChart"
    /\ chartClicked' = chartType
    /\ activeButtons' = {chartType}
    /\ activeContainers' = ContainersAfterSwitch(activeContainers, chartType)
    /\ currentChartType' = chartType
    /\ chartIssued' = RefreshCurrentChart(chartType)
    /\ timeRange' = timeRange
    /\ ChartStep
    /\ UNCHANGED <<chartTimerVars, initPending>>

\* Click on #refresh-charts-btn
RefreshChartsClick ==
    /\ op' = "refreshCharts"
    /\ chartIssued' = RefreshCurrentChart(currentChartType)
    /\ timeRange' = timeRange
    /\ ChartStep
    /\ UNCHANGED <<currentChartType, activeButtons, activeContainers, chartTimerVars,
                   initPending, chartClicked>>

\* #time-range-selector changed
TimeRangeChange(hours) ==
    /\ hours # timeRange
    /\ op' = "timeRange"
    /\ chartIssued' = IF currentChartType = "line" THEN <<"line">> ELSE <<>>
    /\ timeRange' = hours
    /\ ChartStep
    /\ UNCHANGED <<currentChartType, activeButtons, activeContainers, chartTimerVars,
                   initPending, chartClicked>>

\* #auto-refresh-charts changed to checked or unchecked
ChartAutoRefreshToggle(checked) ==
    /\ op' = IF checked THEN "chartAutoRefreshOn" ELSE "chartAutoRefreshOff"
    /\ autoRefresh' = checked
    /\ IF checked THEN StartChartAutoRefresh ELSE StopChartAutoRefresh
    /\ chartIssued' = <<>>
    /\ timeRange' = timeRange
    /\ ChartStep
    /\ UNCHANGED <<currentChartType, activeButtons, activeContainers, initPending,
                   chartClicked>>

\* The 500 ms timeout of ChartManager.init fires: initializeCharts(), whose
\* last call is refreshCurrentChart(), then startAutoRefresh()
ChartInitTimeout ==
    /\ initPending
    /\ op' = "chartInit"
    /\ initPending' = FALSE
    /\ chartIssued' = RefreshCurrentChart(currentChartType)
    /\ StartChartAutoRefresh
    /\ autoRefresh' = autoRefresh
    /\ timeRange' = timeRange
    /\ ChartStep
    /\ UNCHANGED <<currentChartType, activeButtons, activeContainers, chartClicked>>

\* refreshHistoricalChart() resumes with the answer to its request for the
\* window hours: fetch and response.json() went well and data.success is
\* true (ok), or not
HistoricalResume(hours, ok) ==
    /\ lineInflight[hours] > 0
    /\ op' = "refreshHistoricalChart"
    /\ lineInflight' = [lineInflight EXCEPT ![hours] = @ - 1]
    /\ lineShown' = SeriesAfterAnswer(ok, ~initPending, hours, lineShown)
    /\ timeRange' = timeRange
    /\ chartIssued' = <<>>
    /\ repeatOf' = "none"
    /\ NoEffects
    /\ issued' = {}
    /\ answered' = NoAnswer
    /\ UNCHANGED <<statusVars, audioVars, alertVars, notifVars, timerVars, inflight,
                   shownVars, connVars, readVars, helperVars>>
    /\ UNCHANGED <<currentChartType, activeButtons, activeContainers, chartTimerVars,
                   initPending, chartClicked>>

\* A chart interval timer that is alive fires
ChartTick ==
    /\ chartTimers # {}
    /\ op' = "chartTick"
    /\ chartIssued' = IntervalCallback(autoRefresh, currentChartType)
    /\ timeRange' = timeRange
    /\ ChartStep
    /\ UNCHANGED <<currentChartType, activeButtons, activeContainers, chartTimerVars,
                   initPending, chartClicked>>

\* --------------------------------------------------------- specifications
\* The alert reconciler driven call by call
NextReconcile ==
    \/ \E S \in ReconcileSnapshots : CallUpdateAlerts(S)
    \/ \E b \in BOOLEAN : CallUpdateSystemStatus(b)
    \/ \E b \in BOOLEAN : ToggleAudio(b)
SpecReconcile == Init /\ [][NextReconcile]_vars

\* The alert pager: snapshots of every size and the page clicks
NextPage ==
    \/ \E S \in PageSnapshots : CallUpdateAlerts(S)
    \/ \E b \in BOOLEAN : CallUpdateSystemStatus(b)
    \/ ClickAlertsPrev
    \/ ClickAlertsNext
SpecPage == Init /\ [][NextPage]_vars

\* The reconciler and the pager given alerts without id or of unknown severity
NextIrregular ==
    \/ \E S \in IrregularSnapshots : CallUpdateAlerts(S)
    \/ \E b \in BOOLEAN : CallUpdateSystemStatus(b)
    \/ ClickAlertsPrev
    \/ ClickAlertsNext
SpecIrregular == Init /\ [][NextIrregular]_vars

\* The audio cue: the reconciler with the audio toggle and the timeouts of the
\* delayed beeps, in a browser with or without the Web Audio API
AllBeeps ==
    UNION {Delayed(PlayAlertSound(s)) : s \in {"low", "medium", "high", "critical"}}
CueSnapshots == {Shifted(n, k) : n \in 0..2, k \in 1..Len(SeverityTexts)}
NextCue ==
    \/ \E S \in CueSnapshots : CallUpdateAlerts(S)
    \/ \E b \in BOOLEAN : CallUpdateSystemStatus(b)
    \/ \E b \in BOOLEAN : ToggleAudio(b)
    \/ \E beep \in AllBeeps : PulseDue(beep)
SpecCue == InitAnyBrowser /\ [][NextCue]_vars

\* The renders that bind click handlers, and the clicks on what they bound:
\* lists that are empty, shorter than a page and longer than a page
BindLengths == {0, 1, alertsPageSize + 1}
NextBind ==
    \/ \E n \in BindLengths : CallUpdateAlerts(Prefix(n))
    \/ ClickAlertsPrev
    \/ ClickAlertsNext
    \/ \E r \in {x \in NotificationsResponses :
                    ~x.success \/ Len(x.notifications) \in BindLengths} :
            LoadNotificationsResume(r)
    \/ ClickNotifPrev
    \/ ClickNotifNext
    \/ ClickMarkAsRead(1)
    \/ \E r \in PostResponses : MarkAsReadResume(1, r)
SpecBind == Init /\ [][NextBind]_vars

\* The notification pager with its loader
NextNotif ==
    \/ \E r \in NotificationsResponses : LoadNotificationsResume(r)
    \/ ClickNotifPrev
    \/ ClickNotifNext
SpecNotif == Init /\ [][NextNotif]_vars

\* The refresh scheduler with the loaders its timer calls
NextTimers ==
    \/ Tick
    \/ AutoRefreshOn
    \/ AutoRefreshOff
    \/ \E v \in RateChoices : RefreshRateChange(v)
    \/ \E r \in MetricsResponses : LoadMetricsResume(r)
    \/ \E r \in AlertsResponses : LoadAlertsResume(r)
    \/ \E r \in AnalyticsResponses : LoadAnalyticsResume(r)
    \/ \E r \in ProcessesResponses : LoadProcessesResume(r)
SpecTimers == Init /\ [][NextTimers]_vars

\* The timer and its loaders next to the push channel
NextSched ==
    \/ Tick
    \/ SocketConnect
    \/ SocketDisconnect
    \/ \E r \in MetricsResponses : LoadMetricsResume(r)
    \/ \E r \in AlertsResponses : LoadAlertsResume(r)
    \/ \E r \in AnalyticsResponses : LoadAnalyticsResume(r)
    \/ \E r \in ProcessesResponses : LoadProcessesResume(r)
SpecSched == Init /\ [][NextSched]_vars

\* The six requests of the first loadDashboard answered in any order, with
\* answers that succeed or fail, next to the pushed system_status events
NextStreams ==
    \/ \E b \in BOOLEAN : CallUpdateSystemStatus(b)
    \/ \E r \in StatusResponses : LoadSystemStatusResume(r)
    \/ \E r \in MetricsResponses : LoadMetricsResume(r)
    \/ \E r \in AlertsResponses : LoadAlertsResume(r)
    \/ \E r \in {x \in NotificationsResponses :
                    ~x.success \/ Len(x.notifications) <= 1} :
            LoadNotificationsResume(r)
    \/ \E r \in AnalyticsResponses : LoadAnalyticsResume(r)
    \/ \E r \in ProcessesResponses : LoadProcessesResume(r)
SpecStreams == Init /\ [][NextStreams]_vars

\* Mark-as-read: the buttons, the POST and the reload of the notifications
NextRead ==
    \/ \E r \in ReadNotificationsResponses : LoadNotificationsResume(r)
    \/ \E i \in AllIds : ClickMarkAsRead(i)
    \/ \E i \in AllIds, r \in PostResponses : MarkAsReadResume(i, r)
SpecRead == Init /\ [][NextRead]_vars

\* The push channel: its socket events and the handlers registered with on()
NextChannel ==
    \/ SocketConnect
    \/ SocketDisconnect
    \/ SocketConnectError
    \/ \E e \in InboundEvents, h \in OtherHandlers : On(e, h)
    \/ \E e \in InboundEvents : \E d \in Payloads(e) : InboundEvent(e, d)
SpecChannel == Init /\ [][NextChannel]_vars

\* The user-initiated actions: start and stop monitoring, mark-as-read, and
\* the two loaders that set what their controls show
NextControls ==
    \/ ClickStart
    \/ \E r \in PostResponses : StartMonitoringResume(r)
    \/ ClickStop
    \/ \E r \in PostResponses : StopMonitoringResume(r)
    \/ \E r \in StatusResponses : LoadSystemStatusResume(r)
    \/ \E r \in {x \in ReadNotificationsResponses :
                    ~x.success \/ Len(x.notifications) <= 1} :
            LoadNotificationsResume(r)
    \/ \E i \in AllIds : ClickMarkAsRead(i)
    \/ \E i \in AllIds, r \in PostResponses : MarkAsReadResume(i, r)
SpecControls == Init /\ [][NextControls]_vars

\* The chart manager next to the dashboard manager's auto-refresh controls
NextCharts ==
    \/ \E k \in ChartKinds : SwitchChart(k)
    \/ RefreshChartsClick
    \/ \E h \in TimeRanges : TimeRangeChange(h)
    \/ \E b \in BOOLEAN : ChartAutoRefreshToggle(b)
    \/ ChartInitTimeout
    \/ ChartTick
    \/ \E h \in TimeRanges, ok \in BOOLEAN : HistoricalResume(h, ok)
    \/ AutoRefreshOn
    \/ AutoRefreshOff
    \/ \E v \in RateChoices : RefreshRateChange(v)
SpecCharts == Init /\ [][NextCharts]_vars

\* Failure and recovery: the timer, the refresh button and the six loaders
\* answered with a transport failure or with success: false (the metrics
\* loader also with a success), next to the two request helpers over one
\* fetch of each kind of ending
FailureResponses == {TransportFailure, [success |-> FALSE, message |-> "refused"]}
RetryOutcomes ==
    {o \in FetchOutcomes :
        \/ o.kind = "rejected"
        \/ o.kind = "unparseable" /\ o.ok
        \/ o.kind = "json" /\ o.ok /\ o.body = [success |-> TRUE]
        \/ o.kind = "json" /\ ~o.ok /\ o.body = TransportFailure}
NextRetry ==
    \/ Tick
    \/ RefreshClick
    \/ \E r \in FailureResponses : LoadSystemStatusResume(r)
    \/ \E r \in MetricsResponses \cup FailureResponses : LoadMetricsResume(r)
    \/ \E r \in FailureResponses : LoadAlertsResume(r)
    \/ \E r \in FailureResponses : LoadNotificationsResume(r)
    \/ \E r \in FailureResponses : LoadAnalyticsResume(r)
    \/ \E r \in FailureResponses : LoadProcessesResume(r)
    \/ \E o \in RetryOutcomes : CallFetchAPI(o)
    \/ \E o \in RetryOutcomes : CallRequest(o)
SpecRetry == Init /\ [][NextRetry]_vars

\* Alert responses that land in any order: the timer issues requests while
\* earlier ones are unanswered and each answer is any snapshot of the backend,
\* whose active set always holds alert 1 and holds the other alerts or not
ReorderSnapshots == {S \in DedupSnapshots : 1 \in IdsOf(S)}
NextReorder ==
    \/ Tick
    \/ \E b \in BOOLEAN : CallUpdateSystemStatus(b)
    \/ \E r \in {[success |-> TRUE, alerts |-> S] : S \in ReorderSnapshots}
                    \cup {TransportFailure} :
            LoadAlertsResume(r)
    \/ LoadMetricsResume(TransportFailure)
    \/ LoadAnalyticsResume(TransportFailure)
    \/ LoadProcessesResume(TransportFailure)
SpecReorder == Init /\ [][NextReorder]_vars

\* The six requests of the constructor's loadDashboard answered in any order
\* by a backend that is running and has alerts: the status answer reports
\* system_running = true and the alerts answer is a non-empty list
RunningStatus == [success |-> TRUE, system_running |-> TRUE]
NextLoadOrder ==
    \/ LoadSystemStatusResume(RunningStatus)
    \/ \E S \in DedupSnapshots \ {<<>>} :
            LoadAlertsResume([success |-> TRUE, alerts |-> S])
    \/ \E r \in MetricsResponses : LoadMetricsResume(r)
    \/ \E r \in {x \in NotificationsResponses :
                    ~x.success \/ Len(x.notifications) <= 1} :
            LoadNotificationsResume(r)
    \/ \E r \in AnalyticsResponses : LoadAnalyticsResume(r)
    \/ \E r \in ProcessesResponses : LoadProcessesResume(r)
SpecLoadOrder == Init /\ [][NextLoadOrder]_vars

\* The historical chart: the chart steps that query it and its requests
\* answered, all with success, in any order
NextLine ==
    \/ \E k \in ChartKinds : SwitchChart(k)
    \/ RefreshChartsClick
    \/ \E h \in TimeRanges : TimeRangeChange(h)
    \/ ChartInitTimeout
    \/ ChartTick
    \/ \E h \in TimeRanges : HistoricalResume(h, TRUE)
SpecLine == Init /\ [][NextLine]_vars

\* The two request helpers over everything a fetch can end with
NextHelpers ==
    \/ \E o \in FetchOutcomes : CallFetchAPI(o)
    \/ \E o \in FetchOutcomes : CallRequest(o)
SpecHelpers == Init /\ [][NextHelpers]_vars

\* The whole client
Next ==
    \/ NextHelpers
    \/ NextCharts
    \/ NextLine
    \/ NextControls
    \/ NextChannel
    \/ NextRead
    \/ NextNotif
    \/ NextTimers
    \/ NextSched
    \/ NextStreams
    \/ ClickAlertsPrev
    \/ ClickAlertsNext
    \/ \E b \in BOOLEAN : ToggleAudio(b)
Spec == Init /\ [][Next]_vars

\* ------------------------------------------------------------- properties
FiredIds == {visualFired[k] : k \in DOMAIN visualFired}

NothingFired ==
    /\ visualFired = <<>>
    /\ cueFired = NoCue
    /\ beepsFired = <<>>
    /\ noticeFired = NoNotice

\* C1: calling updateAlerts twice in a row with the same snapshot fires nothing
\* (no sound, no on-screen notification, no aggregate notice) in the second call, whatever monitoringActive is, and no call shows the
\* notification of one id more than once.
C1_RepeatedCallFiresNothing ==
    /\ repeatOf # "none" => NothingFired
    /\ \A i \in AllIds :
          Cardinality({k \in DOMAIN visualFired : visualFired[k] = i}) <= 1

\* A second call with the snapshot whose first call fired its notifications
C1_Witness ==
    /\ repeatOf = "fired"
    /\ monitoringActive
    /\ alertSoundPlayed = IdsOf(alertsCache)
    /\ alertsCache # <<>>

\* C2: while an alert id stays in every snapshot applied, over any calls of
\* updateAlerts, monitoring switches and page clicks, its on-screen
\* notification is shown at most once.
C2_AtMostOncePerRun == \A i \in AllIds : runFired[i] <= 1

\* A later snapshot of the run fired for a new id and not for the id notified before
C2_Witness ==
    /\ op = "updateAlerts"
    /\ visualFired # <<>>
    /\ \E i \in IdsOf(alertsCache) : runFired[i] = 1 /\ i \notin FiredIds

\* C3: alertsPage stays within 0 .. max(0, ceil(total / 5) - 1) for the cached
\* alert list, after any next clicks, prev clicks and snapshots of any size.
C3_AlertsPageInRange ==
    LET total == Len(alertsCache)
        pages == (total + alertsPageSize - 1) \div alertsPageSize
    IN  /\ alertsPage >= 0
        /\ alertsPage <= (IF pages >= 1 THEN pages - 1 ELSE 0)

\* A snapshot applied while a later page is shown
C3_Witness ==
    /\ op = "updateAlerts"
    /\ alertsPage >= 1
    /\ alertsPage * alertsPageSize + alertsPageSize > Len(alertsCache)

\* C6: with monitoring active, an id whose notification fired, that then left
\* with an empty snapshot, is notified again by the next snapshot that contains
\* it: on screen and by a call of playAlertSound, whose beeps sound when audio
\* is enabled.
C6_ReappearanceFiresAgain ==
    (op = "updateAlerts" /\ monitoringActive) =>
        \A i \in firedBeforeClear \cap IdsOf(alertsCache) :
            /\ i \in FiredIds
            /\ cueFired # NoCue
            /\ audioEnabled => beepsFired # <<>>

\* The id notified before the empty snapshot is back and monitoring is active
C6_Witness ==
    /\ op = "updateAlerts"
    /\ monitoringActive
    /\ firedBeforeClear \cap IdsOf(alertsCache) # {}

\* Rank of a severity text under low < medium < high < critical, letter case
\* aside; a missing severity ranks as low
SeverityRank(sev) ==
    CASE sev \in {"critical", "CRITICAL"} -> 3
      [] sev \in {"high", "High"} -> 2
      [] sev = "medium" -> 1
      [] OTHER -> 0

RankName(r) ==
    CASE r = 3 -> "critical" [] r = 2 -> "high" [] r = 1 -> "medium" [] OTHER -> "low"

\* Pulses of the cue of each severity: their number and start times
CueDelays(name) ==
    CASE name = "critical" -> <<0, 200, 400>>
      [] name = "high" -> <<0, 250>>
      [] OTHER -> <<0>>

\* C5: when updateAlerts notifies a non-empty set of alerts that are not in the
\* dedup record, the one audio cue is that of the highest severity among them
\* (low < medium < high < critical, missing severity = low), whatever their
\* order, and the aggregate notice reports how many they are.
C5_CueOfHighestNewSeverity ==
    [][(op' = "updateAlerts" /\ visualFired' # <<>>) =>
        LET newOnes == {k \in DOMAIN alertsCache' :
                            alertsCache'[k].id \notin alertSoundPlayed}
            top == CHOOSE r \in 0..3 :
                    /\ \E k \in newOnes : SeverityRank(alertsCache'[k].severity) = r
                    /\ \A k \in newOnes : SeverityRank(alertsCache'[k].severity) <= r
        IN  /\ newOnes # {}
            /\ cueFired' = RankName(top)
            /\ noticeFired' = [count |-> Cardinality(newOnes), severity |-> RankName(top)]
            /\ audioEnabled =>
                /\ Len(beepsFired') = 1
                /\ {beepsFired'[1][4]}
                        \cup {b[4] : b \in {x \in pendingBeeps' : x[1] = beepsFired'[1][1]}}
                     = {CueDelays(RankName(top))[k] :
                            k \in DOMAIN CueDelays(RankName(top))}
                /\ (top = 0) = (beepsFired'[1][1] < 800)
    ]_vars

\* New alerts medium, critical, low in one snapshot: critical cue, count 3
C5_Witness ==
    /\ op = "updateAlerts"
    /\ [k \in DOMAIN alertsCache |-> alertsCache[k].severity]
          = <<"medium", "critical", "low">>
    /\ Len(visualFired) = 3
    /\ cueFired = "critical"
    /\ Len(beepsFired) = 1
    /\ {b[4] : b \in pendingBeeps} = {200, 400}
    /\ noticeFired.count = 3

\* C4: notificationsPage stays within 0 .. max(0, ceil(total / 5) - 1) for the
\* notification list last rendered, after any notification next clicks, prev
\* clicks and refreshes, answered or still outstanding.
C4_NotificationsPageInRange ==
    /\ notificationsPage >= 0
    /\ notificationsPage <= MaxPage(notificationsTotal)

\* C8: every run of the interval callback sends one request for each of the
\* six streams.
C8_TickIssuesSixStreams ==
    [][op' = "tick" => issued' = Streams]_vars

\* C7: the 'disconnect' event of the push channel turns the indicator to
\* 'Polling', and the interval callback keeps asking for all six streams
\* whether the channel is connected or not.
C7_PollingKeepsSixStreams ==
    [][/\ (op' = "disconnect" => connText' = "Polling")
       /\ \A c \in BOOLEAN :
             (op' = "tick" /\ rtConnected = c) =>
                 \A s \in Streams : s \in issued']_vars

\* C9: a loader that resumes with a failed answer leaves what the dashboard
\* shows and the state derived from it as they were.
C9_FailureLeavesStateUnchanged ==
    [][answered' = "failure" =>
          UNCHANGED <<statusVars, alertVars, notifVars, shownVars>>]_vars

\* C10: at most one interval timer is alive and state.refreshInterval holds
\* its id; after stopAutoRefresh none is alive; stopAutoRefresh with no timer
\* running changes nothing.
C10_OneTimerSafeStop ==
    /\ [](/\ Cardinality(activeTimers) <= 1
          /\ activeTimers = IF refreshInterval = NoTimer
                            THEN {}
                            ELSE {<<refreshInterval, DefaultRefreshMs>>}
          /\ (op = "stopAutoRefresh" =>
                 activeTimers = {} /\ refreshInterval = NoTimer))
    /\ [][(op' = "stopAutoRefresh" /\ refreshInterval = NoTimer) =>
             UNCHANGED timerVars]_vars

\* stopAutoRefresh has ended the timer that a startAutoRefresh put in the
\* place of the one the constructor started
C10_Witness ==
    /\ op = "stopAutoRefresh"
    /\ activeTimers = {}
    /\ refreshInterval = NoTimer
    /\ nextTimerId > 2

\* C11: the timer starts with period 2000 ms, and the timer that is running
\* after the refresh-rate control was changed to v ticks with period v.
C11_TimerFollowsRate ==
    /\ refreshMsField = NoRate =>
          \A t \in activeTimers : t[2] = DefaultRefreshMs
    /\ (op = "refreshRate" /\ refreshInterval # NoTimer) =>
          activeTimers = {<<refreshInterval, refreshMsField>>}

\* C12: after updateAlerts is applied to an empty alert list, whatever the
\* state before, the alert count shows 0, the badge shows "All Clear", the
\* stored alertsPage is 0 and the pagination info shows "Page 0".
C12_EmptyAlertSet ==
    (op = "updateAlerts" /\ alertsCache = <<>>) =>
        /\ alertsMetric = 0
        /\ alertsStatus = "All Clear"
        /\ alertsPage = 0
        /\ alertsContent = <<>>
        /\ alertsPageInfo = 0

\* Alerts 5k+1 .. min(5k+5, n) of the cached list, in snapshot order
ExpectedAlertsPage(k) ==
    LET n == Len(alertsCache)
        first == alertsPageSize * k + 1
        last == IF alertsPageSize * k + alertsPageSize <= n
                THEN alertsPageSize * k + alertsPageSize ELSE n
    IN  IF last < first THEN <<>>
        ELSE [j \in 1..(last - first + 1) |-> alertsCache[first + j - 1]]

\* C13: the rendered alert page k shows exactly alerts 5k+1 .. min(5k+5, n) in
\* snapshot order; a next click moves one page forward and shows that page;
\* on the last page no next click changes the page or what is shown.
C13_AlertPageContents ==
    /\ [](alertsContent = ExpectedAlertsPage(alertsPage))
    /\ [][op' = "alertsNext" =>
            /\ alertsPage' = alertsPage + 1
            /\ alertsCache' = alertsCache
            /\ alertsContent' = ExpectedAlertsPage(alertsPage)']_vars
    /\ [][alertsPage >= MaxPage(Len(alertsCache)) =>
            (op' = "alertsNext" => UNCHANGED alertVars)]_vars

\* Six alerts, next clicked on page 0: page 1 shows alert 6 and next is disabled
C13_Witness ==
    /\ op = "alertsNext"
    /\ Len(alertsCache) = 6
    /\ alertsPage = 1
    /\ alertsContent = <<alertsCache[6]>>
    /\ alertsNextDisabled

\* C14: a POST .../read answered with success issues a reload of the
\* notifications, and a rendered notification whose record carries
\* is_read = true has no mark-as-read button, while one that carries
\* is_read = false has it.
C14_ReadOmitsControl ==
    /\ [][(op' = "markAsRead" /\ answered' = "success") =>
            issued' = {"notifications"}]_vars
    /\ []((op = "loadNotifications" /\ answered = "success") =>
          \A k \in DOMAIN notificationsContent :
            \A j \in DOMAIN notificationsGiven :
                notificationsGiven[j].id = notificationsContent[k].id =>
                    /\ (notificationsGiven[j].id \in markedRead
                            /\ notificationsGiven[j].is_read) =>
                          ~notificationsContent[k].markAsReadBtn
                    /\ ~notificationsGiven[j].is_read =>
                          notificationsContent[k].markAsReadBtn)

\* C15: when the channel is established the manager sends join_monitoring and
\* emits 'connected'; when it fails to connect or an established channel is
\* lost, the manager emits 'disconnected' to its subscribers.
C15_ConnectContract ==
    [][/\ op' = "connect" =>
            /\ joinSent'
            /\ delivered' = Emit(listeners, "connected", NoData)
            /\ connText' = "Connected"
       /\ op' \in {"connect_error", "disconnect"} =>
            /\ delivered' = Emit(listeners, "disconnected", NoData)
            /\ connText' = "Polling"]_vars

\* C16: an inbound system_status, metrics_update or alert_notification event
\* is delivered in the same step, payload unchanged, to every handler
\* registered for that event name, once per registration and in registration
\* order, and to no handler of another event name.
C16_PublishSubscribe ==
    [][op' \in InboundEvents =>
        /\ Len(delivered') = Len(listeners[op'])
        /\ \A k \in DOMAIN delivered' :
              /\ delivered'[k].handler = listeners[op'][k]
              /\ delivered'[k].event = op'
              /\ delivered'[k].data \in Payloads(op')
              /\ delivered'[k].data = delivered'[1].data
        /\ op' = "system_status" =>
              monitoringActive' = delivered'[1].data.system_running
        /\ op' = "metrics_update" =>
              metricsShown' = delivered'[1].data.metrics
        /\ listeners' = listeners]_vars

\* system_status reached the dashboard's handler and then h2, registered
\* after it, while handlers wait for alert_notification
C16_Witness ==
    /\ op = "system_status"
    /\ Len(delivered) = 2
    /\ delivered[1].handler = "updateSystemStatus"
    /\ delivered[2].handler = "h2"
    /\ delivered[2].data = [system_running |-> TRUE]
    /\ monitoringActive
    /\ listeners["alert_notification"] = <<"h2", "h1">>

\* C17: when fetch is rejected or the body does not parse, either request
\* helper ends by returning {success: false, error}; it never throws to its
\* caller.
C17_FailureReturnedAsValue ==
    (helperCall # NoCall /\ helperCall.outcome.kind \in {"rejected", "unparseable"}) =>
        /\ helperCall.result.returned
        /\ helperCall.result.value.success = FALSE
        /\ helperCall.result.value.error = ErrorMessage(helperCall.outcome)

\* C18: when the request of start monitoring, stop monitoring or mark-as-read
\* fails, monitoringActive keeps its value, the start control is disabled and
\* the stop control enabled exactly when monitoring is active, and a failure
\* notice is shown.
C18_FailureRevertsControls ==
    [][(op' \in {"startMonitoring", "stopMonitoring", "markAsRead"}
            /\ answered' = "failure") =>
          /\ monitoringActive' = monitoringActive
          /\ startDisabled' = monitoringActive'
          /\ stopDisabled' = ~monitoringActive'
          /\ toast'.type = "danger"]_vars

\* C19: after switchChart(k) for k among bar, gauge, pie and line,
\* currentChartType is k, the container of k is the only chart container
\* that is active, and exactly one refresh is called, the one of kind k.
C19_SwitchShowsAndRefreshesOne ==
    [][op' = "switchChart" =>
          /\ chartClicked' \in ChartKinds
          /\ currentChartType' = chartClicked'
          /\ activeContainers' = {chartClicked'}
          /\ chartIssued' = <<chartClicked'>>]_vars

\* The line chart was selected after another chart had been the active one
C19_Witness ==
    /\ op = "switchChart"
    /\ chartClicked = "line"
    /\ currentChartType = "line"
    /\ activeContainers = {"line"}
    /\ chartIssued = <<"line">>
    /\ ~initPending

\* C20: the chart timer is independent of the dashboard's: a chart timer tick
\* refreshes only the chart kind that is active when it fires, at most one
\* chart timer is alive after any sequence of chart start, stop and toggle
\* operations, toggling chart auto-refresh leaves the dashboard's timer as it
\* is, and the dashboard's auto-refresh controls leave the chart timer as it is.
C20_ChartTimerIndependent ==
    /\ [](/\ Cardinality(chartTimers) <= 1
          /\ chartTimers = IF refreshTimer = NoTimer
                           THEN {}
                           ELSE {<<refreshTimer, ChartRefreshInterval>>}
          /\ (op = "chartAutoRefreshOff" => chartTimers = {}))
    /\ [][op' = "chartTick" =>
             /\ chartIssued' = IF autoRefresh THEN <<currentChartType>> ELSE <<>>
             /\ issued' = {}]_vars
    /\ [][op' \in {"chartAutoRefreshOn", "chartAutoRefreshOff", "chartInit"} =>
             UNCHANGED <<timerVars, inflight>>]_vars
    /\ [][op' \in {"startAutoRefresh", "stopAutoRefresh", "refreshRate"} =>
             UNCHANGED chartTimerVars]_vars

\* Chart auto-refresh was switched off after its timer had been started twice,
\* while the dashboard's timer is alive
C20_Witness ==
    /\ op = "chartAutoRefreshOff"
    /\ chartTimers = {}
    /\ refreshTimer = NoTimer
    /\ nextChartTimerId > 2
    /\ activeTimers # {}
    /\ ~autoRefresh

\* C21: the per-alert visual notifications, the audio cue and the aggregate
\* notice fire in an updateAlerts call only if the snapshot is longer than
\* lastAlertCount and monitoringActive is true when it is called; nothing
\* fires while monitoringActive is false, and the dedup record gains no id in
\* a call whose notification branch does not run.
C21_EffectsOnlyInBranch ==
    /\ [][op' = "updateAlerts" =>
             LET branch == Len(alertsCache') > lastAlertCount /\ monitoringActive
                 fired == \/ visualFired' # <<>>
                          \/ cueFired' # NoCue
                          \/ beepsFired' # <<>>
                          \/ noticeFired' # NoNotice
             IN /\ fired => branch
                /\ ~branch => alertSoundPlayed' \subseteq alertSoundPlayed]_vars
    /\ []((op = "updateAlerts" /\ ~monitoringActive) => NothingFired)

\* A snapshot of two alerts applied while monitoring is off: nothing fired and
\* nothing recorded
C21_Witness ==
    /\ op = "updateAlerts"
    /\ ~monitoringActive
    /\ Len(alertsCache) = 2
    /\ alertSoundPlayed = {}
    /\ NothingFired

\* C22: after every updateAlerts call, whether or not its notification branch
\* ran, lastAlertCount is the size of the snapshot it was given, alertsCache is
\* that snapshot, and the dedup record holds only ids of that snapshot, so it
\* is never larger than the snapshot.
C22_StateFollowsSnapshot ==
    /\ lastAlertCount = Len(alertsGiven)
    /\ alertsCache = alertsGiven
    /\ alertSoundPlayed \subseteq IdsOf(alertsGiven)
    /\ Cardinality(alertSoundPlayed) <= Len(alertsGiven)

\* A call that notified nothing, made with one alert whose id stayed in the
\* record from an earlier call
C22_Witness ==
    /\ op = "updateAlerts"
    /\ Len(alertsGiven) = 1
    /\ alertSoundPlayed = {alertsGiven[1].id}
    /\ visualFired = <<>>
    /\ repeatOf = "none"

\* C23: an alert without id is never recorded in the dedup record, so in a
\* call whose notification branch runs every alert without id of the snapshot
\* is notified, whatever was notified before.
C23_IdlessNeverRecorded ==
    /\ [](Undefined \notin alertSoundPlayed)
    /\ [][(op' = "updateAlerts" /\ monitoringActive
             /\ Len(alertsCache') > lastAlertCount) =>
            Cardinality({k \in DOMAIN visualFired' : visualFired'[k] = Undefined})
                = Occurrences(alertsCache', Undefined)]_vars

\* Label of the highest severity of a list under low < medium < high <
\* critical, with every other severity text counted as low
ExpectedBadge(alerts) ==
    IF alerts = <<>> THEN "All Clear"
    ELSE LET top == CHOOSE r \in 0..3 :
                        /\ \E k \in DOMAIN alerts : SeverityRank(alerts[k].severity) = r
                        /\ \A k \in DOMAIN alerts : SeverityRank(alerts[k].severity) <= r
         IN CASE top = 3 -> "Critical Risk"
              [] top = 2 -> "High Risk"
              [] top = 1 -> "Medium Risk"
              [] OTHER -> "Low Risk"

\* C24: after every updateAlerts call the badge reads "All Clear" exactly when
\* the snapshot is empty and otherwise the label of the highest severity of
\* the whole snapshot (low < medium < high < critical, a missing or unknown
\* severity counted as low), whatever monitoringActive, the dedup record and
\* the page are.
C24_BadgeOfWholeSnapshot ==
    (op \in {"updateAlerts", "alertsPrev", "alertsNext"}) =>
        /\ alertsStatus = ExpectedBadge(alertsCache)
        /\ (alertsStatus = "All Clear") = (alertsCache = <<>>)

\* An alert of unknown severity ahead of a high one that was notified before:
\* the badge shows the high label while monitoring is off
C24_Witness ==
    /\ op = "updateAlerts"
    /\ alertsCache = <<Alert(1, "urgent"), Alert(2, "High")>>
    /\ alertsStatus = "High Risk"
    /\ alertSoundPlayed = {2}
    /\ ~monitoringActive

\* Frequency of the beeps of the cue of each severity
CueFrequency(name) ==
    CASE name = "critical" -> 1000
      [] name = "high" -> 900
      [] name = "medium" -> 800
      [] OTHER -> 600

\* C25: an updateAlerts call with new alerts to notify triggers one audio cue:
\* three beeps for critical (at 0, 200 and 400 ms), two for high (at 0 and
\* 250 ms), one for medium and one for low. A beep sounds only if audio is
\* enabled and an audio context exists at the moment it is due; the visual
\* notifications are shown whether it sounds or not.
C25_OneCueOfGuardedBeeps ==
    /\ [][(op' = "updateAlerts" /\ visualFired' # <<>>) =>
            LET delays == CueDelays(cueFired')
                mine == {b \in pendingBeeps' : b[1] = CueFrequency(cueFired')}
            IN /\ cueFired' \in {"low", "medium", "high", "critical"}
               /\ beepsFired' = IF audioEnabled /\ audioContext
                                THEN <<PlayAlertSound(cueFired')[1]>>
                                ELSE <<>>
               /\ PlayAlertSound(cueFired')[1][1] = CueFrequency(cueFired')
               /\ PlayAlertSound(cueFired')[1][4] = 0
               /\ {b[4] : b \in mine} = {delays[k] : k \in 2..Len(delays)}
               /\ Cardinality(mine) = Len(delays) - 1
               /\ pendingBeeps' = pendingBeeps \cup mine]_vars
    /\ [][op' = "pulseDue" =>
            /\ Cardinality(pendingBeeps \ pendingBeeps') = 1
            /\ pendingBeeps' \subseteq pendingBeeps
            /\ beepsFired' = IF audioEnabled /\ audioContext
                             THEN <<CHOOSE b \in pendingBeeps : b \notin pendingBeeps'>>
                             ELSE <<>>]_vars
    /\ [][(op' = "updateAlerts" /\ monitoringActive
             /\ Len(alertsCache') > lastAlertCount
             /\ ~(IdsOf(alertsCache') \subseteq alertSoundPlayed)) =>
            visualFired' # <<>>]_vars

\* Audio was switched off after a critical cue began: its second beep came due
\* and stayed silent, its third is still to come
C25_Witness ==
    /\ op = "pulseDue"
    /\ ~audioEnabled
    /\ audioContext
    /\ beepsFired = <<>>
    /\ pendingBeeps = {<<1000, 150, "square", 400>>}

\* C26: the redraw of the alert list after a click on next or prev, which
\* runs updateAlerts on the cached list, fires no audio cue, no visual
\* notification and no aggregate notice, and leaves alertsCache,
\* lastAlertCount and the dedup record as they are, whatever monitoringActive
\* is.
C26_RedrawIsSilent ==
    [][op' \in {"alertsPrev", "alertsNext"} =>
          /\ NothingFired'
          /\ pendingBeeps' = pendingBeeps
          /\ UNCHANGED <<alertsCache, lastAlertCount, alertSoundPlayed>>
          /\ alertsPage' # alertsPage]_vars

\* Next was clicked while monitoring is active, on a list that was applied
\* while monitoring was off, so none of its alerts is in the dedup record
C26_Witness ==
    /\ op = "alertsNext"
    /\ monitoringActive
    /\ alertsPage = 1
    /\ Len(alertsCache) > alertsPageSize
    /\ alertSoundPlayed = {}
    /\ NothingFired

\* Requests of markNotificationAsRead that are awaiting their answer
PendingReads == {p \in AllIds \X (1..MaxInFlight) : p[2] <= readPending[p[1]]}

\* C27: after any number of renders of the alert list and of the
\* notification list, each prev and next control and each mark-as-read
\* control carries exactly one click handler.
C27_ExactlyOneHandler ==
    /\ (op \in {"updateAlerts", "alertsPrev", "alertsNext"}) =>
          alertsHandlers = [prev |-> 1, next |-> 1]
    /\ (op = "loadNotifications" /\ answered = "success") =>
          notifHandlers = [prev |-> 1, next |-> 1]
    /\ \A k \in DOMAIN notificationsContent :
          notificationsContent[k].markAsReadBtn => notificationsContent[k].handlers = 1

\* C27 as the code keeps it: no prev, next or mark-as-read control ever
\* carries more than one click handler, however often the lists are rendered;
\* each carries exactly one once a list that is not empty has been rendered,
\* and none before (an empty list is rendered without binding). One click
\* changes the page index by at most 1 and issues at most one mark-as-read
\* request.
C27_AtMostOneHandler ==
    /\ [](/\ alertsHandlers.prev <= 1 /\ alertsHandlers.next <= 1
          /\ notifHandlers.prev <= 1 /\ notifHandlers.next <= 1
          /\ alertsHandlers = IF alertsBound THEN [prev |-> 1, next |-> 1]
                              ELSE [prev |-> 0, next |-> 0]
          /\ notifHandlers = IF notifBound THEN [prev |-> 1, next |-> 1]
                             ELSE [prev |-> 0, next |-> 0]
          /\ (alertsContent # <<>> => alertsBound)
          /\ (notificationsContent # <<>> => notifBound)
          /\ \A k \in DOMAIN notificationsContent :
                notificationsContent[k].handlers
                    = IF notificationsContent[k].markAsReadBtn THEN 1 ELSE 0)
    /\ [][/\ alertsBound => alertsBound'
          /\ notifBound => notifBound']_vars
    /\ [][op' \in {"alertsPrev", "alertsNext"} =>
             alertsPage' - alertsPage \in {-1, 1}]_vars
    /\ [][op' \in {"notificationsPrev", "notificationsNext"} =>
             notificationsPage' - notificationsPage \in {-1, 1}]_vars
    /\ [][op' = "markAsReadClick" =>
             Cardinality(PendingReads') = Cardinality(PendingReads) + 1]_vars

\* The alert list was rendered again, now empty, after next had been clicked
\* on a longer one; two notifications lists were rendered as well
C27_Witness ==
    /\ op = "updateAlerts"
    /\ alertsCache = <<>>
    /\ alertsHandlers = [prev |-> 1, next |-> 1]
    /\ notifHandlers = [prev |-> 1, next |-> 1]
    /\ Len(notificationsContent) = 1
    /\ notificationsContent[1].handlers = 1
    /\ notificationsPage = 1

\* C28: every refresh cycle has at most one request outstanding at a time:
\* a tick of the scheduler issues a request for a stream only when no
\* earlier request of that stream is still unanswered.
C28_OneOutstandingPerStream ==
    [][op' = "tick" => \A s \in issued' : inflight[s] = 0]_vars

\* C29: stopAutoRefresh ends the timer and leaves every outstanding request
\* outstanding; while state.refreshInterval is null no tick runs; a response
\* that lands while no timer is alive is still taken by its loader: the
\* request is answered, no timer is started by it, a successful alerts
\* response is applied by updateAlerts as at any other time (cache and
\* lastAlertCount follow the snapshot, the dedup record holds only its ids,
\* the page is in range) and a failed one changes no alert state.
C29_StopLeavesRequestsToLand ==
    /\ [][op' = "stopAutoRefresh" =>
             activeTimers' = {} /\ inflight' = inflight]_vars
    /\ [][refreshInterval = NoTimer => op' # "tick"]_vars
    /\ [](\A s \in TickStreams :
             (activeTimers = {} /\ inflight[s] > 0) =>
                 ENABLED (Answer(s, TransportFailure) /\ UNCHANGED timerVars))
    /\ [][(activeTimers = {} /\ op' = "loadAlerts") =>
             /\ inflight' = [inflight EXCEPT !["alerts"] = @ - 1]
             /\ activeTimers' = {} /\ refreshInterval' = NoTimer
             /\ (answered' = "success" =>
                    /\ alertsCache' = alertsGiven'
                    /\ lastAlertCount' = Len(alertsGiven')
                    /\ alertSoundPlayed' \subseteq IdsOf(alertsGiven')
                    /\ alertsPage' >= 0
                    /\ alertsPage' * alertsPageSize <
                           (IF alertsGiven' = <<>> THEN 1 ELSE Len(alertsGiven')))
             /\ (answered' = "failure" => UNCHANGED alertVars)]_vars

\* A successful alerts response with one alert has landed after
\* stopAutoRefresh ended the timer, and the alert is in the cache
C29_Witness ==
    /\ op = "loadAlerts"
    /\ answered = "success"
    /\ activeTimers = {}
    /\ refreshInterval = NoTimer
    /\ Len(alertsCache) = 1
    /\ lastAlertCount = 1

\* Number of requests outstanding over all streams
Outstanding(f) == f["status"] + f["metrics"] + f["alerts"] + f["notifications"]
                      + f["analytics"] + f["processes"]

C31_OnceUnderReordering ==
    \A i \in AllIds :
        (\A S \in ReorderSnapshots : i \in IdsOf(S)) =>
            /\ runFired[i] <= 1
            /\ (runFired[i] = 1 => i \in alertSoundPlayed)

\* Two alert requests were outstanding; the first answer notified alert 1,
\* the second answer holds a further alert and notified that one only
C31_Witness ==
    /\ op = "loadAlerts"
    /\ answered = "success"
    /\ monitoringActive
    /\ runFired[1] = 1
    /\ FiredIds # {}
    /\ 1 \notin FiredIds
    /\ inflight["alerts"] >= 1

\* C32: no alert is missed while monitoring is active: when updateAlerts is
\* called with monitoringActive true, from a state where every alert of the
\* previous snapshot is in the dedup record, every alert id of the new
\* snapshot is in the dedup record after the call, also when a new alert
\* took the place of a removed one and the snapshot did not grow.
C32_NoMissedAlert ==
    [][(/\ op' = "updateAlerts"
        /\ monitoringActive
        /\ IdsOf(alertsCache) \subseteq alertSoundPlayed) =>
            IdsOf(alertsCache') \subseteq alertSoundPlayed']_vars

\* C33 as stated: the count of the aggregate notice is the number of alert
\* ids of the snapshot that were absent from the snapshot applied before, and
\* no alert of that earlier snapshot is notified.
C33_CountOfAbsentFromPrevious ==
    [][(op' = "updateAlerts" /\ visualFired' # <<>>) =>
          /\ noticeFired'.count = Cardinality(IdsOf(alertsCache') \ IdsOf(alertsCache))
          /\ FiredIds' \cap IdsOf(alertsCache) = {}]_vars

\* C33: the count of the aggregate notice is the number of alerts of the
\* snapshot whose id is not in the dedup record when updateAlerts is called,
\* each of them is notified on screen, and an alert whose id is in the dedup
\* record is never counted or notified as new; a call that emits no notice
\* notifies no alert.
C33_CountOfUnrecorded ==
    [][op' = "updateAlerts" =>
          /\ FiredIds' \cap alertSoundPlayed = {}
          /\ (visualFired' # <<>> =>
                /\ noticeFired'.count =
                      Cardinality({k \in DOMAIN alertsCache' :
                                      alertsCache'[k].id \notin alertSoundPlayed})
                /\ noticeFired'.count = Len(visualFired'))
          /\ (visualFired' = <<>> => noticeFired' = NoNotice)]_vars

\* A call with two alerts, one of them recorded before: the notice counts one
C33_Witness ==
    /\ op = "updateAlerts"
    /\ Len(alertsCache) = 2
    /\ Len(visualFired) = 1
    /\ noticeFired.count = 1
    /\ alertSoundPlayed = IdsOf(alertsCache)

\* C34: the alert notifications fired for the answers of one loadDashboard do
\* not depend on which of the status answer and the alerts answer is applied
\* first. Applied status first, every alert of the list is notified; so once
\* both are applied, in either order, every alert of the list has been
\* notified.
C34_SameNotificationsEitherOrder ==
    (inflight["status"] = 0 /\ inflight["alerts"] = 0) =>
        {i \in AllIds : runFired[i] >= 1} = IdsOf(alertsCache)

\* C35: a tick of the chart timer issues no chart refresh while autoRefresh
\* is false, also when the timer is alive because the delayed initialisation
\* started it after auto-refresh had been switched off; a click on the
\* refresh button and a switch of chart type issue the refresh of the chart
\* shown whatever the flag is.
C35_NoTimerRefreshWhileOff ==
    /\ [][(op' = "chartTick" /\ ~autoRefresh) => chartIssued' = <<>>]_vars
    /\ [][op' \in {"refreshCharts", "switchChart"} =>
             chartIssued' = <<currentChartType'>>]_vars
    /\ [][(op' = "chartInit" /\ ~autoRefresh) =>
             chartTimers' # {} /\ ~autoRefresh']_vars

\* Auto-refresh was switched off before the delayed initialisation ran, the
\* initialisation started the timer all the same, and the timer has ticked
C35_Witness ==
    /\ op = "chartTick"
    /\ ~autoRefresh
    /\ ~initPending
    /\ chartTimers # {}
    /\ refreshTimer = 1
    /\ chartIssued = <<>>

\* C36: while the line chart is the chart shown and no historical request is
\* outstanding, the series in the line chart is that of the look-back window
\* the selector holds, in whatever order the answers came in.
C36_ShowsSelectedWindow ==
    (/\ currentChartType = "line"
     /\ \A h \in TimeRanges : lineInflight[h] = 0
     /\ lineShown # NoSeries) =>
        lineShown = timeRange

\* C37: the audio flag takes no part in reconciliation. What a call of
\* updateAlerts notifies on screen is decided by the snapshot, lastAlertCount,
\* monitoringActive and the dedup record alone; every alert it notifies is in
\* the dedup record afterwards and playAlertSound is called, with audio on or
\* off; with audio off no beep sounds. The audio toggle changes no alert
\* state and calls no cue, so an alert notified while audio was off is not
\* cued again once audio is on.
C37_AudioFlagLeavesReconciliation ==
    /\ [][op' = "updateAlerts" =>
             LET new == {alertsCache'[k].id :
                            k \in {j \in DOMAIN alertsCache' :
                                      alertsCache'[j].id \notin alertSoundPlayed}}
             IN  /\ FiredIds' = IF Len(alertsCache') > lastAlertCount /\ monitoringActive
                                THEN new ELSE {}
                 /\ FiredIds' \subseteq alertSoundPlayed'
                 /\ (cueFired' # NoCue) = (visualFired' # <<>>)
                 /\ lastAlertCount' = Len(alertsCache')
                 /\ (~audioEnabled => beepsFired' = <<>>)]_vars
    /\ [][op' = "audioToggle" =>
             /\ UNCHANGED <<statusVars, alertVars, pendingBeeps>>
             /\ visualFired' = <<>>
             /\ cueFired' = NoCue
             /\ beepsFired' = <<>>]_vars

\* With audio off a call notified its alerts on screen and recorded them,
\* called the cue, and no beep sounded
C37_Witness ==
    /\ op = "updateAlerts"
    /\ ~audioEnabled
    /\ audioContext
    /\ visualFired # <<>>
    /\ cueFired # NoCue
    /\ beepsFired = <<>>
    /\ alertSoundPlayed = IdsOf(alertsCache)

\* C38: the severity updateAlerts passes to playAlertSound is one of low,
\* medium, high, critical. When every alert it notifies has a missing or
\* unrecognized severity (or low), the cue is that of low, and no call selects
\* the default pattern of playAlertSound.
C38_CueSeverityIsKnown ==
    [][(op' = "updateAlerts" /\ cueFired' # NoCue) =>
          LET new == {k \in DOMAIN alertsCache' :
                          alertsCache'[k].id \notin alertSoundPlayed}
              defaultCue == PlayAlertSound("unrecognized")
          IN  /\ \E i \in DOMAIN severityOrder : cueFired' = severityOrder[i]
              /\ (\A k \in new : SeverityRank(alertsCache'[k].severity) = 0) =>
                    /\ cueFired' = "low"
                    /\ beepsFired' = PlayAlertSound("low")
              /\ \A j \in DOMAIN beepsFired' : beepsFired'[j] # defaultCue[1]
    ]_vars

\* An alert of severity 'urgent' was notified: the cue is that of low
C38_Witness ==
    /\ op = "updateAlerts"
    /\ \E k \in DOMAIN alertsCache :
          alertsCache[k].severity = "urgent" /\ alertsCache[k].id \in FiredIds
    /\ cueFired = "low"
    /\ beepsFired = PlayAlertSound("low")

\* C39: when a handler of 'connected' runs, the connected flag is already true
\* and join_monitoring has already been sent; when a handler of
\* 'disconnected' runs, the flag is already false; and the flag changes in no
\* step other than the socket's 'connect' and 'disconnect' events.
C39_StateBeforeSubscribers ==
    /\ [](\A k \in DOMAIN delivered :
             /\ delivered[k].event = "connected" =>
                   handlerSaw[k].connected /\ handlerSaw[k].joinSent
             /\ delivered[k].event = "disconnected" => ~handlerSaw[k].connected)
    /\ [][rtConnected' # rtConnected => op' \in {"connect", "disconnect"}]_vars
    /\ [][op' = "connect" => rtConnected' /\ joinSent']_vars
    /\ [][op' = "disconnect" => ~rtConnected']_vars

\* The channel is up and the dashboard's handler of 'connected' ran, seeing
\* the flag set and join_monitoring sent
C39_Witness ==
    /\ op = "connect"
    /\ Len(delivered) = 1
    /\ delivered[1].event = "connected"
    /\ delivered[1].handler = "updateConnectionStatus(true)"
    /\ handlerSaw[1] = [connected |-> TRUE, joinSent |-> TRUE]
    /\ rtConnected
    /\ connText = "Connected"

====
